---- MODULE Spec2Model ----
(***************************************************************************)
(* Waitlist backend: signed session cookies (auth.ts), the OAuth login     *)
(* handshake, the access gate of the worker's fetch handler and the        *)
(* WaitlistDO submission store.                                             *)
(*                                                                         *)
(* Strings are sequences of code points.  Two values that no string can    *)
(* equal stand for the two non-string outcomes of the code: THROW (an      *)
(* exception leaves the function) and NULL (the function returns null).    *)
(***************************************************************************)
EXTENDS Integers, Sequences, FiniteSets, TLC

VARIABLES
    clock,   \* Date.now(), in milliseconds
    ticks,   \* how many times the clock has advanced
    minted,  \* codec runs: the signSession call made and what it returned
    probe,   \* codec runs: the last parseSession call and what it returned
    env,     \* the worker's configuration: SESSION_SECRET, ALLOWED_EMAILS
    nonce,   \* how many values crypto.randomUUID() has drawn
    kept,    \* a copy of the last session token the worker issued
    store,   \* rows of the submissions table
    seq,     \* the table's AUTOINCREMENT counter (sqlite_sequence)
    assigned, \* every id the table has ever given to a row
    table,   \* the submissions table: whether the WaitlistDO has been constructed, its columns
    browser, \* a browser: its oauth_state cookie and the callbacks it has sent
    calls,   \* calls of WaitlistDO methods: made, waiting, run
    last     \* the request being answered and its response

codecVars == <<clock, ticks, minted, probe>>
sysVars == <<env, nonce, kept, store, seq, assigned, table, browser, calls, last>>
vars == <<clock, ticks, minted, probe, env, nonce, kept, store, seq, assigned, table,
         browser, calls, last>>

(***************************************************************************)
(* Bounds of the exploration.                                              *)
(***************************************************************************)
MaxIdLen == 1
MaxTicks == 2
MaxLogins == 2
MaxRows == 1

THROW == <<0 - 1>>
NULL == <<0 - 2>>

\* A browser without cookies that has sent nothing: state and expires are
\* its oauth_state cookie, flight the callback requests it has sent that
\* are not answered yet; used and done keep the state values with which a
\* callback has passed the state check and has ended in the redirect.
NoBrowser == [state |-> NULL, expires |-> 0, flight |-> {}, used |-> {}, done |-> {}]

\* No call of a WaitlistDO method has been made: made counts the calls,
\* waiting are the calls the object has not run yet, log the calls in the
\* order the object ran them, each with what it returned.
NoCalls == [made |-> 0, waiting |-> {}, log |-> <<>>]

(***************************************************************************)
(* auth.ts constants.                                                      *)
(***************************************************************************)
SESSION_MAX_AGE == 86400
STATE_MAX_AGE == 600
COOKIE_NAME == <<115, 101, 115, 115, 105, 111, 110>>
STATE_COOKIE == <<111, 97, 117, 116, 104, 95, 115, 116, 97, 116, 101>>

(***************************************************************************)
(* Platform string functions, as the runtime defines them.                 *)
(***************************************************************************)

\* String.prototype.indexOf for a single character: 1-based position of the
\* first occurrence of c in s, 0 when there is none (JavaScript's -1).
RECURSIVE indexFrom(_, _, _)
indexFrom(s, c, i) ==
    IF i > Len(s) THEN 0
    ELSE IF s[i] = c THEN i
    ELSE indexFrom(s, c, i + 1)

indexOf(s, c) == indexFrom(s, c, 1)

\* TextEncoder.encode: UTF-8 bytes of a string (code points below U+10000).
RECURSIVE utf8From(_, _)
utf8From(s, i) ==
    IF i > Len(s) THEN <<>>
    ELSE LET c == s[i]
             b == IF c < 128 THEN <<c>>
                  ELSE IF c < 2048 THEN <<192 + (c \div 64), 128 + (c % 64)>>
                  ELSE <<224 + (c \div 4096), 128 + ((c \div 64) % 64), 128 + (c % 64)>>
         IN b \o utf8From(s, i + 1)

utf8(s) == utf8From(s, 1)

\* The base64 alphabet: 6-bit value to character and back (-1: not in it).
B64Char(v) ==
    IF v < 26 THEN 65 + v
    ELSE IF v < 52 THEN 97 + (v - 26)
    ELSE IF v < 62 THEN 48 + (v - 52)
    ELSE IF v = 62 THEN 43
    ELSE 47

B64Val(c) ==
    IF c >= 65 /\ c =< 90 THEN c - 65
    ELSE IF c >= 97 /\ c =< 122 THEN c - 71
    ELSE IF c >= 48 /\ c =< 57 THEN c + 4
    ELSE IF c = 43 THEN 62
    ELSE IF c = 47 THEN 63
    ELSE 0 - 1

RECURSIVE b64EncodeFrom(_, _)
b64EncodeFrom(b, i) ==
    LET n == Len(b) - i + 1 IN
    IF n =< 0 THEN <<>>
    ELSE IF n = 1 THEN
        <<B64Char(b[i] \div 4), B64Char((b[i] % 4) * 16), 61, 61>>
    ELSE IF n = 2 THEN
        <<B64Char(b[i] \div 4),
          B64Char((b[i] % 4) * 16 + (b[i + 1] \div 16)),
          B64Char((b[i + 1] % 16) * 4), 61>>
    ELSE
        <<B64Char(b[i] \div 4),
          B64Char((b[i] % 4) * 16 + (b[i + 1] \div 16)),
          B64Char((b[i + 1] % 16) * 4 + (b[i + 2] \div 64)),
          B64Char(b[i + 2] % 64)>> \o b64EncodeFrom(b, i + 3)

\* btoa: InvalidCharacterError when a code point is above U+00FF, otherwise
\* the padded base64 text of the code points taken as bytes.
btoa(s) ==
    IF \E i \in 1..Len(s) : s[i] > 255 THEN THROW
    ELSE b64EncodeFrom(s, 1)

RECURSIVE b64DecodeFrom(_, _)
b64DecodeFrom(s, i) ==
    LET n == Len(s) - i + 1
        v(k) == B64Val(s[i + k])
    IN
    IF n =< 1 THEN <<>>
    ELSE IF n = 2 THEN <<v(0) * 4 + (v(1) \div 16)>>
    ELSE IF n = 3 THEN
        <<v(0) * 4 + (v(1) \div 16), (v(1) % 16) * 16 + (v(2) \div 4)>>
    ELSE
        <<v(0) * 4 + (v(1) \div 16),
          (v(1) % 16) * 16 + (v(2) \div 4),
          (v(2) % 4) * 64 + v(3)>> \o b64DecodeFrom(s, i + 4)

IsAsciiWhitespace(c) == c \in {9, 10, 12, 13, 32}
NotAsciiWhitespace(c) == ~IsAsciiWhitespace(c)

\* atob (forgiving-base64 decode): ASCII whitespace is dropped; one or two
\* trailing '=' are dropped when the length is a multiple of 4; a length of
\* 1 modulo 4 or a character outside the alphabet is an InvalidCharacterError;
\* the bits left over after the last whole byte are discarded unchecked.
atob(s) ==
    LET t == SelectSeq(s, NotAsciiWhitespace)
        n == Len(t)
        u == IF n % 4 = 0 /\ n >= 2 /\ t[n] = 61 /\ t[n - 1] = 61
                 THEN SubSeq(t, 1, n - 2)
             ELSE IF n % 4 = 0 /\ n >= 1 /\ t[n] = 61
                 THEN SubSeq(t, 1, n - 1)
             ELSE t
    IN IF Len(u) % 4 = 1 THEN THROW
       ELSE IF \E i \in 1..Len(u) : B64Val(u[i]) < 0 THEN THROW
       ELSE b64DecodeFrom(u, 1)

\* Number.prototype.toString for a non-negative integer.
RECURSIVE Dec(_)
Dec(n) == IF n < 10 THEN <<48 + n>> ELSE Dec(n \div 10) \o <<48 + (n % 10)>>

\* JSON.stringify of a string: quoted, with '"' and '\' escaped.
RECURSIVE jsonEscapeFrom(_, _)
jsonEscapeFrom(s, i) ==
    IF i > Len(s) THEN <<>>
    ELSE (IF s[i] = 34 \/ s[i] = 92 THEN <<92, s[i]>> ELSE <<s[i]>>)
         \o jsonEscapeFrom(s, i + 1)

jsonQuote(s) == <<34>> \o jsonEscapeFrom(s, 1) \o <<34>>

\* JSON.stringify({ email, exp }).
stringifySession(email, exp) ==
    <<123, 34, 101, 109, 97, 105, 108, 34, 58>> \o jsonQuote(email)
        \o <<44, 34, 101, 120, 112, 34, 58>> \o Dec(exp) \o <<125>>

\* Value of a hexadecimal digit, -1 for any other character.
HexVal(c) ==
    IF c >= 48 /\ c =< 57 THEN c - 48
    ELSE IF c >= 97 /\ c =< 102 THEN c - 87
    ELSE IF c >= 65 /\ c =< 70 THEN c - 55
    ELSE 0 - 1

\* The character a single-letter JSON escape stands for, -1 when the letter
\* is no escape: \" \\ \/ \b \f \n \r \t.
JsonEscape(c) ==
    IF c \in {34, 92, 47} THEN c
    ELSE IF c = 98 THEN 8
    ELSE IF c = 102 THEN 12
    ELSE IF c = 110 THEN 10
    ELSE IF c = 114 THEN 13
    ELSE IF c = 116 THEN 9
    ELSE 0 - 1

\* JSON.parse of a string literal starting after its opening quote at i:
\* [end |-> position of the closing quote (0: malformed), val |-> the string].
RECURSIVE jsonStringFrom(_, _, _)
jsonStringFrom(p, i, acc) ==
    IF i > Len(p) THEN [end |-> 0, val |-> <<>>]
    ELSE IF p[i] = 34 THEN [end |-> i, val |-> acc]
    ELSE IF p[i] = 92 THEN
        IF i + 1 > Len(p) THEN [end |-> 0, val |-> <<>>]
        ELSE IF p[i + 1] = 117 THEN
            IF i + 5 =< Len(p) /\ \A k \in 2..5 : HexVal(p[i + k]) >= 0
                THEN jsonStringFrom(p, i + 6,
                        Append(acc, HexVal(p[i + 2]) * 4096 + HexVal(p[i + 3]) * 256
                                    + HexVal(p[i + 4]) * 16 + HexVal(p[i + 5])))
                ELSE [end |-> 0, val |-> <<>>]
        ELSE IF JsonEscape(p[i + 1]) >= 0
            THEN jsonStringFrom(p, i + 2, Append(acc, JsonEscape(p[i + 1])))
            ELSE [end |-> 0, val |-> <<>>]
    ELSE IF p[i] < 32 THEN [end |-> 0, val |-> <<>>]
    ELSE jsonStringFrom(p, i + 1, Append(acc, p[i]))

\* JSON.parse of an unsigned integer literal in p[i..j]: its value, -1 when
\* the text is not one.
RECURSIVE jsonNatFrom(_, _, _, _)
jsonNatFrom(p, i, j, acc) ==
    IF i > j THEN acc
    ELSE IF p[i] < 48 \/ p[i] > 57 THEN 0 - 1
    ELSE jsonNatFrom(p, i + 1, j, acc * 10 + (p[i] - 48))

\* JSON.parse of a session payload and the destructuring { email, exp }:
\* [ok |-> FALSE] when JSON.parse throws.  Only texts of the shape that
\* JSON.stringify({ email, exp }) writes are parsed; every other text is
\* taken as malformed.
parseSessionJSON(p) ==
    LET bad == [ok |-> FALSE, email |-> <<>>, exp |-> 0]
        head == <<123, 34, 101, 109, 97, 105, 108, 34, 58, 34>>
        mid == <<44, 34, 101, 120, 112, 34, 58>>
    IN IF Len(p) < Len(head) \/ SubSeq(p, 1, Len(head)) # head THEN bad
       ELSE LET str == jsonStringFrom(p, Len(head) + 1, <<>>)
                a == str.end + 1
                b == str.end + Len(mid)
            IN IF str.end = 0 THEN bad
               ELSE IF Len(p) < b + 2 \/ SubSeq(p, a, b) # mid THEN bad
               ELSE IF p[Len(p)] # 125 THEN bad
               ELSE IF p[b + 1] = 48 /\ Len(p) > b + 2 THEN bad
               ELSE LET n == jsonNatFrom(p, b + 1, Len(p) - 1, 0)
                    IN IF n < 0 THEN bad
                       ELSE [ok |-> TRUE, email |-> str.val, exp |-> n]

\* Math.floor(Date.now() / 1000) at a clock reading in milliseconds.
nowSeconds(ms) == ms \div 1000

\* String.prototype.trim: white space and line terminators are removed
\* from both ends.
IsJsWhitespace(c) == c \in {9, 10, 11, 12, 13, 32, 160, 8232, 8233, 65279}

RECURSIVE trimLeft(_)
trimLeft(s) ==
    IF s # <<>> /\ IsJsWhitespace(Head(s)) THEN trimLeft(Tail(s)) ELSE s

RECURSIVE trimRight(_)
trimRight(s) ==
    IF s # <<>> /\ IsJsWhitespace(s[Len(s)])
        THEN trimRight(SubSeq(s, 1, Len(s) - 1))
        ELSE s

trim(s) == trimRight(trimLeft(s))

\* String.prototype.split for a single-character separator: the pieces
\* between the separators, in order (one piece, s, when there is none).
RECURSIVE splitOn(_, _)
splitOn(s, sep) ==
    LET k == indexOf(s, sep) IN
    IF k = 0 THEN <<s>>
    ELSE <<SubSeq(s, 1, k - 1)>> \o splitOn(SubSeq(s, k + 1, Len(s)), sep)

\* Array.prototype.includes on an array of strings.
includes(arr, x) == \E i \in 1..Len(arr) : arr[i] = x

\* !v for a value that is a string or null.
IsFalsyString(v) == v = NULL \/ v = <<>>

(***************************************************************************)
(* Session cookie (HMAC-SHA256 signed).                                    *)
(***************************************************************************)

\* hmacSign: HMAC-SHA256 of the UTF-8 bytes of payload under the UTF-8 bytes
\* of secret, base64-encoded.  The MAC is the ideal one: a tag that
\* determines the key and the message it was computed from (no collisions).
hmacTag(key, msg) == <<Len(key)>> \o key \o msg

\* hmacSign with the key left out of the tag.
hmacSignNoKey(payload, secret) == b64EncodeFrom(hmacTag(<<>>, utf8(payload)), 1)

hmacSign(payload, secret) == b64EncodeFrom(hmacTag(utf8(secret), utf8(payload)), 1)

hmacVerify(payload, signature, secret) == hmacSign(payload, secret) = signature

signSession(email, secret, nowMs) ==
    LET exp == nowSeconds(nowMs) + SESSION_MAX_AGE
        payload == stringifySession(email, exp)
        sig == hmacSign(payload, secret)
        b64 == btoa(payload)
    IN IF b64 = THROW THEN THROW ELSE b64 \o <<46>> \o sig

\* parseSession with the expiry test one second late.
parseSessionLateExpiry(cookie, secret, nowMs) ==
    LET dot == indexOf(cookie, 46) IN
    IF dot = 0 THEN NULL
    ELSE LET payloadB64 == SubSeq(cookie, 1, dot - 1)
             sig == SubSeq(cookie, dot + 1, Len(cookie))
             payload == atob(payloadB64)
         IN IF payload = THROW THEN NULL
            ELSE IF ~hmacVerify(payload, sig, secret) THEN NULL
            ELSE LET obj == parseSessionJSON(payload)
                 IN IF ~obj.ok THEN NULL
                    ELSE IF obj.exp + 1 < nowSeconds(nowMs) THEN NULL
                    ELSE obj.email

\* parseSession without the try around atob: the exception leaves it.
parseSessionNoCatch(cookie, secret, nowMs) ==
    LET dot == indexOf(cookie, 46) IN
    IF dot = 0 THEN NULL
    ELSE LET payloadB64 == SubSeq(cookie, 1, dot - 1)
             sig == SubSeq(cookie, dot + 1, Len(cookie))
             payload == atob(payloadB64)
         IN IF payload = THROW THEN THROW
            ELSE IF ~hmacVerify(payload, sig, secret) THEN NULL
            ELSE LET obj == parseSessionJSON(payload)
                 IN IF ~obj.ok THEN NULL
                    ELSE IF obj.exp < nowSeconds(nowMs) THEN NULL
                    ELSE obj.email

parseSession(cookie, secret, nowMs) ==
    LET dot == indexOf(cookie, 46) IN
    IF dot = 0 THEN NULL
    ELSE LET payloadB64 == SubSeq(cookie, 1, dot - 1)
             sig == SubSeq(cookie, dot + 1, Len(cookie))
             payload == atob(payloadB64)
         IN IF payload = THROW THEN NULL
            ELSE IF ~hmacVerify(payload, sig, secret) THEN NULL
            ELSE LET obj == parseSessionJSON(payload)
                 IN IF ~obj.ok THEN NULL
                    ELSE IF obj.exp < nowSeconds(nowMs) THEN NULL
                    ELSE obj.email

RECURSIVE getCookieFrom(_, _, _)
getCookieFrom(parts, name, i) ==
    IF i > Len(parts) THEN NULL
    ELSE LET part == parts[i]
             eq == indexOf(part, 61)
             k == IF eq = 0 THEN part ELSE SubSeq(part, 1, eq - 1)
             rest == IF eq = 0 THEN <<>> ELSE SubSeq(part, eq + 1, Len(part))
         IN IF trim(k) = name THEN trim(rest)
            ELSE getCookieFrom(parts, name, i + 1)

\* getCookie on the request's Cookie header (the empty string when the
\* request has none).
getCookie(header, name) == getCookieFrom(splitOn(header, 59), name, 1)

(***************************************************************************)
(* JSON.parse of an identity token's payload, as far as handleCallback     *)
(* reads it: the members email and email_verified of a JSON object.        *)
(* A JSON value is [k |-> its kind, s |-> its text if a string,            *)
(* n |-> its value if a number]; k = "absent" is JavaScript's undefined.   *)
(***************************************************************************)
JsonAbsent == [k |-> "absent", s |-> <<>>, n |-> 0]
JsonStr(str) == [k |-> "string", s |-> str, n |-> 0]

\* JavaScript truthiness of a JSON value.
Truthy(v) ==
    \/ v.k = "true"
    \/ v.k = "string" /\ v.s # <<>>
    \/ v.k = "number" /\ v.n # 0

RECURSIVE jsonDigitsEnd(_, _)
jsonDigitsEnd(t, i) ==
    IF i + 1 =< Len(t) /\ t[i + 1] >= 48 /\ t[i + 1] =< 57
        THEN jsonDigitsEnd(t, i + 1)
        ELSE i

\* The JSON value that starts at t[j]: [end |-> position of its last
\* character (0: no value starts there), v |-> the value].
jsonValueAt(t, j) ==
    LET bad == [end |-> 0, v |-> JsonAbsent]
        word(w) == j + Len(w) - 1 =< Len(t) /\ SubSeq(t, j, j + Len(w) - 1) = w
    IN IF j > Len(t) THEN bad
       ELSE IF t[j] = 34 THEN
           LET str == jsonStringFrom(t, j + 1, <<>>)
           IN IF str.end = 0 THEN bad ELSE [end |-> str.end, v |-> JsonStr(str.val)]
       ELSE IF word(<<116, 114, 117, 101>>)
           THEN [end |-> j + 3, v |-> [k |-> "true", s |-> <<>>, n |-> 0]]
       ELSE IF word(<<102, 97, 108, 115, 101>>)
           THEN [end |-> j + 4, v |-> [k |-> "false", s |-> <<>>, n |-> 0]]
       ELSE IF word(<<110, 117, 108, 108>>)
           THEN [end |-> j + 3, v |-> [k |-> "null", s |-> <<>>, n |-> 0]]
       ELSE IF t[j] >= 48 /\ t[j] =< 57 THEN
           LET e == jsonDigitsEnd(t, j)
           IN IF t[j] = 48 /\ e > j THEN bad
              ELSE [end |-> e, v |-> [k |-> "number", s |-> <<>>,
                                      n |-> jsonNatFrom(t, j, e, 0)]]
       ELSE bad

JsonThrow == [kind |-> "throw", email |-> JsonAbsent, email_verified |-> JsonAbsent]
JsonNull == [kind |-> "null", email |-> JsonAbsent, email_verified |-> JsonAbsent]
JsonEmptyObject == [kind |-> "object", email |-> JsonAbsent, email_verified |-> JsonAbsent]

\* The members of a JSON object from t[i] on, t[i] being the quote that
\* opens a member's name; a repeated name keeps its last value.
RECURSIVE claimsMembersFrom(_, _, _)
claimsMembersFrom(t, i, acc) ==
    IF i > Len(t) \/ t[i] # 34 THEN JsonThrow
    ELSE LET key == jsonStringFrom(t, i + 1, <<>>) IN
         IF key.end = 0 \/ key.end + 1 > Len(t) \/ t[key.end + 1] # 58 THEN JsonThrow
         ELSE LET val == jsonValueAt(t, key.end + 2)
                  next == IF key.val = <<101, 109, 97, 105, 108>>
                              THEN [acc EXCEPT !.email = val.v]
                          ELSE IF key.val = <<101, 109, 97, 105, 108, 95, 118, 101,
                                              114, 105, 102, 105, 101, 100>>
                              THEN [acc EXCEPT !.email_verified = val.v]
                          ELSE acc
              IN IF val.end = 0 \/ val.end + 1 > Len(t) THEN JsonThrow
                 ELSE IF t[val.end + 1] = 44 THEN claimsMembersFrom(t, val.end + 2, next)
                 ELSE IF t[val.end + 1] = 125 /\ val.end + 1 = Len(t) THEN next
                 ELSE JsonThrow

\* JSON.parse(text) as { email?, email_verified? }: kind "throw" when the
\* text is not the JSON of an object or of null (a SyntaxError), "null" for
\* the literal null.
parseClaimsJSON(t) ==
    IF t = <<110, 117, 108, 108>> THEN JsonNull
    ELSE IF Len(t) < 2 \/ t[1] # 123 \/ t[Len(t)] # 125 THEN JsonThrow
    ELSE IF Len(t) = 2 THEN JsonEmptyObject
    ELSE claimsMembersFrom(t, 2, JsonEmptyObject)

(***************************************************************************)
(* Public API of auth.ts.  A response is                                   *)
(*   [status, loc, setSession, setState, exchanged]                        *)
(* where status 500 stands for an exception that leaves the handler, loc   *)
(* names the Location target, setSession / setState are the value of the   *)
(* Set-Cookie header for the session / oauth_state cookie (NULL: no such   *)
(* header, the empty string: the cookie is cleared with Max-Age=0) and     *)
(* exchanged tells whether the token endpoint was called.                  *)
(***************************************************************************)
Response(status, loc, exchanged) ==
    [status |-> status, loc |-> loc, setSession |-> NULL, setState |-> NULL,
     exchanged |-> exchanged]

\* crypto.randomUUID(): the n-th value drawn, different for every n.
randomUUID(n) == <<117>> \o Dec(n)

handleLogin(n) ==
    [Response(302, "google", FALSE) EXCEPT !.setState = randomUUID(n)]

\* env.ALLOWED_EMAILS.split(",").map(e => e.trim())
RECURSIVE trimAll(_)
trimAll(arr) ==
    IF arr = <<>> THEN <<>> ELSE <<trim(Head(arr))>> \o trimAll(Tail(arr))

allowedEmails(e) == trimAll(splitOn(e.ALLOWED_EMAILS, 44))

\* The test of line 106 asking only that a state cookie is there.
stateRejectedAnyCookie(code, state, savedState) ==
    IsFalsyString(code) \/ IsFalsyString(state) \/ IsFalsyString(savedState)

\* The test of line 106 with savedState ignored when the cookie is absent.
stateRejectedLax(code, state, savedState) ==
    IsFalsyString(code) \/ IsFalsyString(state)
        \/ (savedState # NULL /\ state # savedState)

\* !code || !state || state !== savedState
stateRejected(code, state, savedState) ==
    IsFalsyString(code) \/ IsFalsyString(state) \/ state # savedState

\* The email test with the allowlist compared without regard to case of
\* ASCII letters.
LowerAscii(s) == [i \in 1..Len(s) |-> IF s[i] >= 65 /\ s[i] =< 90 THEN s[i] + 32 ELSE s[i]]

isAllowedAnyCase(e, email) ==
    \E i \in 1..Len(allowedEmails(e)) : LowerAscii(allowedEmails(e)[i]) = LowerAscii(email)

\* allowed.includes(email)
isAllowed(e, email) == includes(allowedEmails(e), email)

\* !claims.email || !claims.email_verified
claimsRejected(claims) == ~Truthy(claims.email) \/ ~Truthy(claims.email_verified)

\* The redirect without the Set-Cookie that clears the state cookie.
sessionResponseKeepState(sessionValue) ==
    [Response(302, "admin", TRUE) EXCEPT !.setSession = sessionValue]

\* The response of a completed login: the redirect to /admin/waitlist, the
\* session cookie, and oauth_state cleared with Max-Age=0.
sessionResponse(sessionValue) ==
    [Response(302, "admin", TRUE) EXCEPT !.setSession = sessionValue, !.setState = <<>>]

\* handleCallback for the query parameters code and state (NULL: absent),
\* the Cookie header, the configuration e, the clock and the token
\* endpoint's reply [ok, json, id_token]: ok is Response.ok, json tells
\* whether the body parses as JSON, id_token is the body's id_token (NULL:
\* none).
handleCallback(code, state, header, e, nowMs, reply) ==
    LET savedState == getCookie(header, STATE_COOKIE) IN
    IF stateRejected(code, state, savedState) THEN Response(403, "", FALSE)
    ELSE IF ~reply.ok THEN Response(502, "", TRUE)
    ELSE IF ~reply.json THEN Response(500, "", TRUE)
    ELSE IF IsFalsyString(reply.id_token) THEN Response(502, "", TRUE)
    ELSE LET parts == splitOn(reply.id_token, 46)
             payloadB64 == IF Len(parts) >= 2 THEN parts[2]
                           ELSE <<117, 110, 100, 101, 102, 105, 110, 101, 100>>
             text == atob(payloadB64)
             claims == IF text = THROW THEN JsonThrow ELSE parseClaimsJSON(text)
         IN IF claims.kind # "object" THEN Response(500, "", TRUE)
            ELSE IF claimsRejected(claims) THEN Response(403, "", TRUE)
            ELSE IF claims.email.k # "string" \/ ~isAllowed(e, claims.email.s)
                THEN Response(403, "", TRUE)
            ELSE LET sessionValue == signSession(claims.email.s, e.SESSION_SECRET, nowMs)
                 IN IF sessionValue = THROW THEN Response(500, "", TRUE)
                    ELSE sessionResponse(sessionValue)

verifySession(header, e, nowMs) ==
    LET cookie == getCookie(header, COOKIE_NAME) IN
    IF IsFalsyString(cookie) THEN NULL
    ELSE parseSession(cookie, e.SESSION_SECRET, nowMs)

\* The redirect of handleLogout without the Set-Cookie that clears the session.
handleLogoutNoClear == Response(302, "root", FALSE)

handleLogout == [Response(302, "root", FALSE) EXCEPT !.setSession = <<>>]

(***************************************************************************)
(* WaitlistDO: the submissions table.  A row is a record; created_at is    *)
(* the second of insertion.                                                *)
(***************************************************************************)

\* The columns of the submissions table as each version of the worker
\* created it: the first, the one with a platform column, the one with
\* target_platforms, and the CREATE TABLE of the present constructor.
SchemaV1 == {"id", "pain", "pay", "created_at"}
SchemaV2 == {"id", "email", "pain", "pay", "platform", "dev_os", "created_at"}
SchemaV3 == {"id", "email", "pain", "pay", "target_platforms", "dev_os", "created_at"}
CreatedColumns ==
    {"id", "email", "pain", "pay", "target_platforms", "dev_os", "created_at"}

\* The columns the constructor adds when PRAGMA table_info lacks them.
AddedColumns == {"email", "target_platforms", "dev_os", "max_agents"}

\* The columns list() selects, which are those of a table the present
\* constructor has created.
LatestColumns == CreatedColumns \cup AddedColumns

\* A number as SQLite holds it: [n |-> its integer part, s |-> the digits
\* of its fraction], an INTEGER when s is empty and a REAL otherwise.
SqlInt(n) == [n |-> n, s |-> <<>>]

\* DEFAULT '' of the text columns, DEFAULT 0 of max_agents.
columnDefault(c) == IF c = "max_agents" THEN SqlInt(0) ELSE <<>>

\* ALTER TABLE submissions ADD COLUMN c ... NOT NULL DEFAULT ...
addColumn(rows, c) ==
    {[k \in DOMAIN r \cup {c} |-> IF k = c THEN columnDefault(c) ELSE r[k]] : r \in rows}

RECURSIVE addColumns(_, _)
addColumns(rows, cs) ==
    IF cs = {} THEN rows
    ELSE LET c == CHOOSE x \in cs : TRUE IN addColumns(addColumn(rows, c), cs \ {c})

\* The migration of the version before the present one: max_agents is not
\* among the columns added.
missingColumnsV3(cols) == {"email", "target_platforms", "dev_os"} \ cols

\* if (!cols.has(c)) for each column the constructor may add
missingColumns(cols) == AddedColumns \ cols

\* The constructor: CREATE TABLE IF NOT EXISTS, then the migration.  A
\* table that does not exist has no columns.
constructColumns(cols) ==
    LET created == IF cols = {} THEN CreatedColumns ELSE cols
    IN created \cup missingColumns(created)

constructRows(cols, rows) ==
    IF cols = {} THEN {} ELSE addColumns(rows, missingColumns(cols))

\* INSERT INTO submissions (...) of a row into a table with the columns
\* cols: it fails when it names a column the table lacks; the columns it
\* does not name take their defaults.
insertFails(cols, row) == ~(DOMAIN row \subseteq cols)
insertRow(cols, row) ==
    [c \in cols |-> IF c \in DOMAIN row THEN row[c] ELSE columnDefault(c)]

\* SELECT id, email, ... of list(): it fails when the table lacks a column
\* it names; otherwise each row shows the selected columns.
selectFails(cols) == ~(LatestColumns \subseteq cols)
selectRows(rows) == {[c \in LatestColumns |-> r[c]] : r \in rows}

\* JSON.stringify of an array of strings.
RECURSIVE jsonArrayItems(_, _)
jsonArrayItems(arr, i) ==
    IF i > Len(arr) THEN <<>>
    ELSE (IF i > 1 THEN <<44>> ELSE <<>>) \o jsonQuote(arr[i]) \o jsonArrayItems(arr, i + 1)

jsonArray(arr) == <<91>> \o jsonArrayItems(arr, 1) \o <<93>>

\* INSERT INTO submissions (...) VALUES (...): the new row of submit, with
\* the id AUTOINCREMENT assigns (one more than the largest id ever used).
submitRow(counter, email, maxAgents, pain, pay, targetPlatforms, devOs, nowMs) ==
    [id |-> counter + 1, email |-> email, max_agents |-> maxAgents, pain |-> pain,
     pay |-> pay, target_platforms |-> jsonArray(targetPlatforms),
     dev_os |-> jsonArray(devOs), created_at |-> nowSeconds(nowMs)]

\* DELETE with <= for =.
deleteRowsUpTo(rows, id) == {r \in rows : r.id > id}

\* DELETE FROM submissions WHERE id = ?
deleteRows(rows, id) == {r \in rows : r.id # id}

\* SELECT without DESC: ascending ids.
RECURSIVE listRowsAscending(_)
listRowsAscending(rows) ==
    IF rows = {} THEN <<>>
    ELSE LET low == CHOOSE r \in rows : \A q \in rows : q.id >= r.id
         IN <<low>> \o listRowsAscending(rows \ {low})

\* SELECT ... FROM submissions ORDER BY id DESC
RECURSIVE listRows(_)
listRows(rows) ==
    IF rows = {} THEN <<>>
    ELSE LET top == CHOOSE r \in rows : \A q \in rows : q.id =< r.id
         IN <<top>> \o listRows(rows \ {top})

(***************************************************************************)
(* The worker's fetch handler, route by route.  Each operator gives the    *)
(* response; the routes that write to the table say so in their action.    *)
(***************************************************************************)

\* DELETE /admin/waitlist/{id}: the status the gate answers.
deleteStatus(header, e, nowMs) ==
    LET email == verifySession(header, e, nowMs) IN
    IF IsFalsyString(email) THEN 401
    ELSE IF ~isAllowed(e, email) THEN 403
    ELSE 200

\* GET /admin/waitlist: 302 to the login path without a session, otherwise
\* the page, of which the rows shown are kept.
listingStatus(header, e, nowMs) ==
    IF IsFalsyString(verifySession(header, e, nowMs)) THEN 302 ELSE 200

\* POST /api/waitlist.  A body is [json |-> whether it parses, email, pain,
\* pay |-> NULL (absent), NONSTRING (a value without trim) or a string,
\* max_agents |-> a JSON value, target_platforms, dev_os |-> NOLIST or an
\* array of strings].
NONSTRING == <<0 - 3>>

\* A JSON number of a body: n is its integer part with its sign, s the
\* digits written after its decimal point.
JsonNum(n, frac) == [k |-> "number", s |-> frac, n |-> n]

\* The digits of a fraction without the zeros at their end: 2.0 is the
\* number 2.
RECURSIVE significant(_)
significant(frac) ==
    IF frac # <<>> /\ frac[Len(frac)] = 48
        THEN significant(SubSeq(frac, 1, Len(frac) - 1))
        ELSE frac

\* typeof body.max_agents === "number" ? body.max_agents : 0, as the value
\* bound to the INSERT: a number of any sign, whole or not, goes through.
\* The column's INTEGER affinity leaves a number with a fraction a REAL.
maxAgentsOf(v) ==
    IF v.k = "number" THEN [n |-> v.n, s |-> significant(v.s)] ELSE SqlInt(0)

\* body.f?.trim(): undefined when f is absent, a TypeError (THROW) when f
\* is no string.
optTrim(v) == IF v = NULL THEN NULL ELSE IF v = NONSTRING THEN THROW ELSE trim(v)

\* The validation with max_agents required as well: a count of 0 is taken
\* for a missing field.
submitStatusAgentsRequired(body) ==
    IF ~body.json THEN 400
    ELSE IF optTrim(body.email) = THROW THEN 400
    ELSE IF optTrim(body.pain) = THROW \/ optTrim(body.pay) = THROW THEN 400
    ELSE IF IsFalsyString(optTrim(body.email)) \/ body.max_agents.k # "number"
            \/ IsFalsyString(optTrim(body.pain)) \/ IsFalsyString(optTrim(body.pay)) THEN 400
    ELSE 200

\* The validation of the first version of the worker: pain and pay only.
submitStatusPainPayOnly(body) ==
    IF ~body.json THEN 400
    ELSE IF optTrim(body.pain) = THROW \/ optTrim(body.pay) = THROW THEN 400
    ELSE IF IsFalsyString(optTrim(body.pain)) \/ IsFalsyString(optTrim(body.pay)) THEN 400
    ELSE 200

submitStatus(body) ==
    IF ~body.json THEN 400
    ELSE IF optTrim(body.email) = THROW THEN 400
    ELSE IF optTrim(body.pain) = THROW \/ optTrim(body.pay) = THROW THEN 400
    ELSE IF IsFalsyString(optTrim(body.email)) \/ IsFalsyString(optTrim(body.pain))
            \/ IsFalsyString(optTrim(body.pay)) THEN 400
    ELSE 200

(***************************************************************************)
(* The codec on its own: one token is minted by signSession and then       *)
(* handed to parseSession, as minted or with one character of its payload  *)
(* segment replaced, under either secret, while the clock advances.        *)
(***************************************************************************)

\* Characters of an identity: 'a', '"' (escaped by JSON.stringify), U+00E9
\* (Latin-1, above ASCII) and U+0142 (above Latin-1).
IdChars == {97, 34, 233, 322}

RECURSIVE SeqsUpTo(_, _)
SeqsUpTo(S, n) ==
    IF n = 0 THEN {<<>>}
    ELSE LET shorter == SeqsUpTo(S, n - 1)
         IN shorter \cup {Append(s, c) : s \in shorter, c \in S}

Identities == SeqsUpTo(IdChars, MaxIdLen)

\* Two signing secrets, "k" and "s".
Secrets == {<<107>>, <<115>>}

\* Clock steps in milliseconds: a second and a half, and SESSION_MAX_AGE.
ClockSteps == {1500, SESSION_MAX_AGE * 1000}

NoMint == [identity |-> <<>>, secret |-> <<>>, at |-> 0 - 1, token |-> NULL]
NoProbe == [kind |-> "none", pos |-> 0, cookie |-> <<>>, secret |-> <<>>,
            at |-> 0, result |-> NULL]

\* The replacements tried for a payload-segment character c: the base64
\* character whose 6-bit value differs from c's in the lowest bit, 'A', and
\* '!' (outside the alphabet).
TamperChars(c) ==
    ({65, 33} \cup
        (IF B64Val(c) < 0 THEN {}
         ELSE {B64Char(IF B64Val(c) % 2 = 0 THEN B64Val(c) + 1 ELSE B64Val(c) - 1)}))
    \ {c}

InitCodec ==
    /\ clock = 0
    /\ ticks = 0
    /\ minted = NoMint
    /\ probe = NoProbe
    /\ env = [SESSION_SECRET |-> <<107>>, ALLOWED_EMAILS |-> <<>>]
    /\ nonce = 0
    /\ kept = NULL
    /\ store = {}
    /\ seq = 0
    /\ assigned = {}
    /\ table = [open |-> TRUE, columns |-> LatestColumns]
    /\ browser = NoBrowser
    /\ calls = NoCalls
    /\ last = [req |-> "none"]

CodecTick(d) ==
    /\ ticks < MaxTicks
    /\ clock' = clock + d
    /\ ticks' = ticks + 1
    /\ probe' = NoProbe
    /\ UNCHANGED <<minted, sysVars>>

CodecSign(identity, secret) ==
    /\ minted = NoMint
    /\ minted' = [identity |-> identity, secret |-> secret, at |-> clock,
                  token |-> signSession(identity, secret, clock)]
    /\ probe' = NoProbe
    /\ UNCHANGED <<clock, ticks, sysVars>>

CodecParseMinted(secret) ==
    /\ probe = NoProbe
    /\ minted # NoMint
    /\ minted.token # THROW
    /\ probe' = [kind |-> "minted", pos |-> 0, cookie |-> minted.token,
                 secret |-> secret, at |-> clock,
                 result |-> parseSession(minted.token, secret, clock)]
    /\ UNCHANGED <<clock, ticks, minted, sysVars>>

CodecParseTampered ==
    /\ probe = NoProbe
    /\ minted # NoMint
    /\ minted.token # THROW
    /\ \E i \in 1..(indexOf(minted.token, 46) - 1) :
          \E c \in TamperChars(minted.token[i]) :
             LET cookie == [minted.token EXCEPT ![i] = c]
             IN probe' = [kind |-> "tampered", pos |-> i, cookie |-> cookie,
                          secret |-> minted.secret, at |-> clock,
                          result |-> parseSession(cookie, minted.secret, clock)]
    /\ UNCHANGED <<clock, ticks, minted, sysVars>>

NextCodec ==
    \/ \E d \in ClockSteps : CodecTick(d)
    \/ \E identity \in Identities, secret \in Secrets : CodecSign(identity, secret)
    \/ \E secret \in Secrets : CodecParseMinted(secret)
    \/ CodecParseTampered

SpecCodec == InitCodec /\ [][NextCodec]_vars

(***************************************************************************)
(* The deployed worker: clients that send the cookies they choose, the     *)
(* token endpoint, the clock and redeployments that change ALLOWED_EMAILS. *)
(***************************************************************************)

\* Allowlists as configured: "a, ł" and "A".
AllowLists == {<<97, 44, 32, 322>>, <<65>>}

\* The emails the identity provider vouches for: "a" and U+0142.
ProviderEmails == {<<97>>, <<322>>}

\* The identity provider's side of an identity token: the claims as JSON
\* text (a string with the characters above ASCII escaped as \uXXXX or
\* not), the text's UTF-8 bytes in base64url, between a header and a
\* signature segment.
HexDigit(v) == IF v < 10 THEN 48 + v ELSE 87 + v

RECURSIVE jsonEscapeAsciiFrom(_, _)
jsonEscapeAsciiFrom(str, i) ==
    IF i > Len(str) THEN <<>>
    ELSE (IF str[i] = 34 \/ str[i] = 92 THEN <<92, str[i]>>
          ELSE IF str[i] < 128 THEN <<str[i]>>
          ELSE <<92, 117, HexDigit(str[i] \div 4096), HexDigit((str[i] \div 256) % 16),
                 HexDigit((str[i] \div 16) % 16), HexDigit(str[i] % 16)>>)
         \o jsonEscapeAsciiFrom(str, i + 1)

base64url(bytes) ==
    LET b == b64EncodeFrom(bytes, 1)
        IsData(c) == c # 61
        d == SelectSeq(b, IsData)
    IN [i \in 1..Len(d) |-> IF d[i] = 43 THEN 45 ELSE IF d[i] = 47 THEN 95 ELSE d[i]]

idToken(text) == <<104, 46>> \o base64url(utf8(text)) \o <<46, 115>>

\* email_verified as the provider may write it: absent, true, false, "false".
VerifiedTexts ==
    {NULL, <<116, 114, 117, 101>>, <<102, 97, 108, 115, 101>>,
     <<34, 102, 97, 108, 115, 101, 34>>}

claimsText(email, escaped, verified) ==
    LET m1 == IF email = NULL THEN <<>>
              ELSE <<34, 101, 109, 97, 105, 108, 34, 58>> \o
                   (IF escaped THEN <<34>> \o jsonEscapeAsciiFrom(email, 1) \o <<34>>
                    ELSE jsonQuote(email))
        m2 == IF verified = NULL THEN <<>>
              ELSE <<34, 101, 109, 97, 105, 108, 95, 118, 101, 114, 105, 102, 105, 101,
                     100, 34, 58>> \o verified
    IN <<123>> \o m1 \o (IF m1 # <<>> /\ m2 # <<>> THEN <<44>> ELSE <<>>) \o m2 \o <<125>>

Reply(ok, json, id_token, email, verified) ==
    [ok |-> ok, json |-> json, id_token |-> id_token, email |-> email,
     verified |-> verified]

\* The token endpoint's replies: a failure status, a body that is no JSON, a
\* body without id_token, an id_token without segments, one whose payload
\* is no JSON, and identity tokens for the claims above.  email and
\* verified record what the provider vouched for.
NoReply == Reply(FALSE, FALSE, NULL, NULL, NULL)

ProviderReplies ==
    {Reply(FALSE, TRUE, NULL, NULL, NULL),
     Reply(TRUE, FALSE, NULL, NULL, NULL),
     Reply(TRUE, TRUE, NULL, NULL, NULL),
     Reply(TRUE, TRUE, <<120>>, NULL, NULL),
     Reply(TRUE, TRUE, idToken(<<123>>), NULL, NULL),
     Reply(TRUE, TRUE, idToken(claimsText(NULL, FALSE, <<116, 114, 117, 101>>)),
           NULL, <<116, 114, 117, 101>>)}
    \cup {Reply(TRUE, TRUE, idToken(claimsText(<<97>>, FALSE, v)), <<97>>, v) :
            v \in VerifiedTexts}
    \cup {Reply(TRUE, TRUE, idToken(claimsText(em, esc, <<116, 114, 117, 101>>)),
                 em, <<116, 114, 117, 101>>) :
            em \in ProviderEmails, esc \in BOOLEAN}

\* The Cookie header a client sends for its oauth_state and session
\* cookies (NULL: it has none).
cookieHeader(sc, ss) ==
    LET a == IF sc = NULL THEN <<>> ELSE STATE_COOKIE \o <<61>> \o sc
        b == IF ss = NULL THEN <<>> ELSE COOKIE_NAME \o <<61>> \o ss
    IN a \o (IF a # <<>> /\ b # <<>> THEN <<59, 32>> ELSE <<>>) \o b

\* body.target_platforms or body.dev_os absent: no array of strings.
NOLIST == <<NULL>>

\* body.f ?? [] for a list f
orEmpty(list) == IF list = NOLIST THEN <<>> ELSE list

NoBody == [json |-> FALSE, email |-> NULL, pain |-> NULL, pay |-> NULL,
           max_agents |-> JsonAbsent, target_platforms |-> NOLIST, dev_os |-> NOLIST]

Request(op, code, state, sc, ss, id, reply, body) ==
    [op |-> op, code |-> code, state |-> state, sc |-> sc, ss |-> ss,
     id |-> id, reply |-> reply, body |-> body]

Idle == [req |-> Request("idle", NULL, NULL, NULL, NULL, 0, NoReply, NoBody),
         resp |-> Response(0, "", FALSE), rows |-> <<>>, before |-> {}]

\* A request, the response to it, the rows a listing shows and the table as
\* it was when the request arrived.
Answer(req, resp, rows) == [req |-> req, resp |-> resp, rows |-> rows, before |-> store]

\* What a client may put in its oauth_state cookie and in the state
\* parameter: nothing, "x", any value randomUUID has drawn.  What it may
\* put in its session cookie: nothing, "x", the kept session token.
StateValues == {NULL, <<120>>} \cup {randomUUID(k) : k \in 1..nonce}
SessionValues == {NULL, <<120>>, kept}

\* The clock of the deployed worker advances a day at a time.
DaySteps == {SESSION_MAX_AGE * 1000}

Init ==
    /\ clock = 0
    /\ ticks = 0
    /\ minted = [identity |-> <<>>, secret |-> <<>>, at |-> 0 - 1, token |-> NULL]
    /\ probe = [kind |-> "none", pos |-> 0, cookie |-> <<>>, secret |-> <<>>,
                at |-> 0, result |-> NULL]
    /\ env \in {[SESSION_SECRET |-> <<107>>, ALLOWED_EMAILS |-> a] : a \in AllowLists}
    /\ nonce = 0
    /\ kept = NULL
    /\ store = {}
    /\ seq = 0
    /\ assigned = {}
    /\ table = [open |-> TRUE, columns |-> LatestColumns]
    /\ browser = NoBrowser
    /\ calls = NoCalls
    /\ last = Idle

\* The response has been sent; the worker waits for the next request.
Respond ==
    /\ last # Idle
    /\ last' = Idle
    /\ UNCHANGED <<clock, ticks, minted, probe, calls, browser, env, nonce, kept, store, seq, assigned, table>>

Tick(d) ==
    /\ last = Idle
    /\ ticks < MaxTicks
    /\ clock' = clock + d
    /\ ticks' = ticks + 1
    /\ UNCHANGED <<minted, probe, calls, browser, env, nonce, kept, store, seq, assigned, table, last>>

\* wrangler secret put ALLOWED_EMAILS: the worker restarts with another
\* allowlist.
Redeploy(allowed) ==
    /\ last = Idle
    /\ allowed # env.ALLOWED_EMAILS
    /\ env' = [env EXCEPT !.ALLOWED_EMAILS = allowed]
    /\ UNCHANGED <<clock, ticks, minted, probe, calls, browser, nonce, kept, store, seq, assigned, table, last>>

\* GET /auth/google
Login ==
    /\ last = Idle
    /\ nonce < MaxLogins
    /\ nonce' = nonce + 1
    /\ last' = Answer(Request("login", NULL, NULL, NULL, NULL, 0, NoReply, NoBody),
                      handleLogin(nonce + 1), <<>>)
    /\ UNCHANGED <<clock, ticks, minted, probe, calls, browser, env, kept, store, seq, assigned, table>>

\* GET /auth/callback?code=..&state=.. with the provider's reply to the
\* exchange, if the handler gets as far as the exchange.
Callback ==
    /\ last = Idle
    /\ \E code \in {NULL, <<99>>}, state \in StateValues, sc \in StateValues :
         LET header == cookieHeader(sc, NULL) IN
         \E reply \in (IF stateRejected(code, state, getCookie(header, STATE_COOKIE))
                       THEN {NoReply} ELSE ProviderReplies) :
           LET resp == handleCallback(code, state, header, env, clock, reply) IN
           /\ last' = Answer(Request("callback", code, state, sc, NULL, 0, reply, NoBody),
                             resp, <<>>)
           /\ kept' = IF resp.setSession = NULL THEN kept ELSE resp.setSession
    /\ UNCHANGED <<clock, ticks, minted, probe, calls, browser, env, nonce, store, seq, assigned, table>>

\* GET /auth/logout
Logout ==
    /\ last = Idle
    /\ last' = Answer(Request("logout", NULL, NULL, NULL, kept, 0, NoReply, NoBody),
                      handleLogout, <<>>)
    /\ UNCHANGED <<clock, ticks, minted, probe, calls, browser, env, nonce, kept, store, seq, assigned, table>>

\* GET /admin/waitlist
Listing ==
    /\ last = Idle
    /\ \E ss \in SessionValues :
         LET status == listingStatus(cookieHeader(NULL, ss), env, clock) IN
         last' = Answer(Request("listing", NULL, NULL, NULL, ss, 0, NoReply, NoBody),
                        Response(status, IF status = 302 THEN "login" ELSE "", FALSE),
                        IF status = 200 THEN listRows(store) ELSE <<>>)
    /\ UNCHANGED <<clock, ticks, minted, probe, calls, browser, env, nonce, kept, store, seq, assigned, table>>

\* DELETE /admin/waitlist/{id}
Delete ==
    /\ last = Idle
    /\ \E ss \in SessionValues, id \in 1..(MaxRows + 1) :
         LET status == deleteStatus(cookieHeader(NULL, ss), env, clock) IN
         /\ last' = Answer(Request("delete", NULL, NULL, NULL, ss, id, NoReply, NoBody),
                           Response(status, "", FALSE), <<>>)
         /\ store' = IF status = 200 THEN deleteRows(store, id) ELSE store
    /\ UNCHANGED <<clock, ticks, minted, probe, calls, browser, env, nonce, kept, seq, assigned, table>>

\* The bodies posted here: one that does not parse, one without an email,
\* a complete one.
Bodies ==
    {NoBody,
     [NoBody EXCEPT !.json = TRUE, !.pain = <<120>>, !.pay = <<121>>],
     [NoBody EXCEPT !.json = TRUE, !.email = <<32, 97>>, !.pain = <<120>>,
                    !.pay = <<121>>, !.max_agents = JsonNum(2, <<>>)]}

\* POST /api/waitlist
Submit ==
    /\ last = Idle
    /\ seq < MaxRows
    /\ \E body \in Bodies :
         LET status == submitStatus(body)
             row == submitRow(seq, trim(body.email),
                              maxAgentsOf(body.max_agents),
                              trim(body.pain), trim(body.pay),
                              orEmpty(body.target_platforms), orEmpty(body.dev_os),
                              clock)
         IN /\ last' = Answer(Request("submit", NULL, NULL, NULL, NULL, 0, NoReply, body),
                              Response(status, "", FALSE), <<>>)
            /\ store' = IF status = 200 THEN store \cup {row} ELSE store
            /\ seq' = IF status = 200 THEN row.id ELSE seq
            /\ assigned' = IF status = 200 THEN assigned \cup {row.id} ELSE assigned
    /\ UNCHANGED <<clock, ticks, minted, probe, calls, browser, env, nonce, kept, table>>

Next ==
    \/ Respond
    \/ \E d \in DaySteps : Tick(d)
    \/ \E allowed \in AllowLists : Redeploy(allowed)
    \/ Login
    \/ Callback
    \/ Logout
    \/ Listing
    \/ Delete
    \/ Submit

Spec == Init /\ [][Next]_vars

(***************************************************************************)
(* The submissions table on its own: POST /api/waitlist with bodies of     *)
(* every kind, and the WaitlistDO methods delete and list called directly. *)
(***************************************************************************)

\* How many accepted submissions a run of the table makes.
MaxSubmits == 3

\* The largest id of the rows present, 0 for an empty table: where a rowid
\* without AUTOINCREMENT would continue from.
lastRowId(counter, rows) ==
    IF rows = {} THEN 0 ELSE (CHOOSE r \in rows : \A q \in rows : q.id =< r.id).id

\* id INTEGER PRIMARY KEY AUTOINCREMENT: the next id continues from the
\* largest id the table has ever held (sqlite_sequence), whatever rows are
\* present.
lastAssignedId(counter, rows) == counter

\* Values of a required field: absent, no string, blank, text with a space
\* before it.
FieldValues(text) == {NULL, NONSTRING, <<32>>, <<32>> \o text}

\* Values of max_agents beside a whole count and a string: null, true, a
\* negative number, numbers with a fraction (1.5 and 2.0).
AgentCounts ==
    {[k |-> "null", s |-> <<>>, n |-> 0], [k |-> "true", s |-> <<>>, n |-> 0],
     JsonNum(0 - 1, <<>>), JsonNum(1, <<53>>), JsonNum(2, <<48>>)}

\* The bodies posted: one that does not parse, every combination of the
\* values of email, pain and pay, and for the complete one max_agents as a
\* number or a string and the two lists given or not, or max_agents of
\* another kind.
StoreBodies ==
    {NoBody}
    \cup {[NoBody EXCEPT !.json = TRUE, !.email = e, !.pain = p, !.pay = y] :
            e \in FieldValues(<<97>>), p \in {NULL, NONSTRING, <<>>, <<120>>},
            y \in FieldValues(<<121>>)}
    \cup {[NoBody EXCEPT !.json = TRUE, !.email = <<97, 32>>, !.pain = <<120>>,
                         !.pay = <<121>>, !.max_agents = m, !.target_platforms = t,
                         !.dev_os = t] :
            m \in {JsonNum(2, <<>>), JsonStr(<<51>>)},
            t \in {NOLIST, <<(<<109>>)>>}}
    \cup {[NoBody EXCEPT !.json = TRUE, !.email = <<97, 32>>, !.pain = <<120>>,
                         !.pay = <<121>>, !.max_agents = m] : m \in AgentCounts}

InitStore ==
    /\ clock = 0
    /\ ticks = 0
    /\ minted = [identity |-> <<>>, secret |-> <<>>, at |-> 0 - 1, token |-> NULL]
    /\ probe = [kind |-> "none", pos |-> 0, cookie |-> <<>>, secret |-> <<>>,
                at |-> 0, result |-> NULL]
    /\ env = [SESSION_SECRET |-> <<107>>, ALLOWED_EMAILS |-> <<>>]
    /\ nonce = 0
    /\ kept = NULL
    /\ store = {}
    /\ seq = 0
    /\ assigned = {}
    /\ table = [open |-> TRUE, columns |-> LatestColumns]
    /\ browser = NoBrowser
    /\ calls = NoCalls
    /\ last = Idle

\* POST /api/waitlist, with the insertion it makes.
StorePost ==
    /\ last = Idle
    /\ table.open
    /\ seq < MaxSubmits
    /\ \E body \in StoreBodies :
         LET row == submitRow(lastAssignedId(seq, store), trim(body.email),
                              maxAgentsOf(body.max_agents),
                              trim(body.pain), trim(body.pay),
                              orEmpty(body.target_platforms), orEmpty(body.dev_os),
                              clock)
             status == IF submitStatus(body) # 200 THEN 400
                       ELSE IF insertFails(table.columns, row) THEN 400
                       ELSE 200
         IN /\ last' = Answer(Request("submit", NULL, NULL, NULL, NULL, 0, NoReply, body),
                              Response(status, "", FALSE), <<>>)
            /\ store' = IF status = 200 THEN store \cup {insertRow(table.columns, row)}
                         ELSE store
            /\ seq' = IF status = 200 THEN row.id ELSE seq
            /\ assigned' = IF status = 200 THEN assigned \cup {row.id} ELSE assigned
    /\ UNCHANGED <<clock, ticks, minted, probe, calls, browser, env, nonce, kept, table>>

\* WaitlistDO.delete(id)
StoreDelete ==
    /\ last = Idle
    /\ table.open
    /\ \E id \in 1..(MaxSubmits + 1) :
         /\ last' = Answer(Request("delete", NULL, NULL, NULL, NULL, id, NoReply, NoBody),
                           Response(200, "", FALSE), <<>>)
         /\ store' = deleteRows(store, id)
    /\ UNCHANGED <<clock, ticks, minted, probe, calls, browser, env, nonce, kept, seq, assigned, table>>

\* WaitlistDO.list()
StoreList ==
    /\ last = Idle
    /\ table.open
    /\ last' = IF selectFails(table.columns)
               THEN Answer(Request("list", NULL, NULL, NULL, NULL, 0, NoReply, NoBody),
                           Response(500, "", FALSE), <<>>)
               ELSE Answer(Request("list", NULL, NULL, NULL, NULL, 0, NoReply, NoBody),
                           Response(200, "", FALSE), listRows(selectRows(store)))
    /\ UNCHANGED <<clock, ticks, minted, probe, calls, browser, env, nonce, kept, store, seq, assigned, table>>

NextStore ==
    \/ Respond
    \/ StorePost
    \/ StoreDelete
    \/ StoreList

SpecStore == InitStore /\ [][NextStore]_vars

(***************************************************************************)
(* The table across versions: a WaitlistDO is constructed on storage that  *)
(* an earlier version of the worker wrote, or on empty storage, and then   *)
(* serves POST /api/waitlist, delete and list.                             *)
(***************************************************************************)

\* A row as a version with the columns cols wrote it.
OldRow(cols, id) ==
    [c \in cols |->
        IF c = "id" THEN id
        ELSE IF c = "created_at" THEN id - 1
        ELSE IF c = "max_agents" THEN SqlInt(2)
        ELSE IF c = "pain" THEN <<120>>
        ELSE IF c = "pay" THEN <<121>>
        ELSE IF c = "email" THEN <<97>>
        ELSE jsonArray(<<(<<109>>)>>)]

\* The storage found: no table, or a table of one of the versions holding
\* some of two rows, the ids 1 and 2 having been assigned.
InitMigrate ==
    /\ clock = 0
    /\ ticks = 0
    /\ minted = [identity |-> <<>>, secret |-> <<>>, at |-> 0 - 1, token |-> NULL]
    /\ probe = [kind |-> "none", pos |-> 0, cookie |-> <<>>, secret |-> <<>>,
                at |-> 0, result |-> NULL]
    /\ env = [SESSION_SECRET |-> <<107>>, ALLOWED_EMAILS |-> <<>>]
    /\ nonce = 0
    /\ kept = NULL
    /\ \E cols \in {{}, SchemaV1, SchemaV2, SchemaV3, LatestColumns} :
         /\ table = [open |-> FALSE, columns |-> cols]
         /\ store \in IF cols = {} THEN {{}} ELSE SUBSET {OldRow(cols, 1), OldRow(cols, 2)}
         /\ seq = IF cols = {} THEN 0 ELSE 2
         /\ assigned = IF cols = {} THEN {} ELSE {1, 2}
    /\ browser = NoBrowser
    /\ calls = NoCalls
    /\ last = Idle

\* new WaitlistDO(ctx, env): the constructor, at the first request and
\* again whenever the object is started anew.
MigrateOpen ==
    /\ last = Idle
    /\ last' = Answer(Request("open", NULL, NULL, NULL, NULL, 0, NoReply, NoBody),
                      Response(200, "", FALSE), <<>>)
    /\ table' = [open |-> TRUE, columns |-> constructColumns(table.columns)]
    /\ store' = constructRows(table.columns, store)
    /\ UNCHANGED <<clock, ticks, minted, probe, calls, browser, env, nonce, kept, seq, assigned>>

NextMigrate ==
    \/ Respond
    \/ MigrateOpen
    \/ StorePost
    \/ StoreDelete
    \/ StoreList

SpecMigrate == InitMigrate /\ [][NextMigrate]_vars

(***************************************************************************)
(* verifySession on its own: a token is minted and requests carry it, or   *)
(* something made from it, in their Cookie header while the clock advances.*)
(***************************************************************************)

\* Texts that are no JSON object, signed as signSession signs its payload:
\* "x", "{" and "null".
JunkPayloads == {<<120>>, <<123>>, <<110, 117, 108, 108>>}

signedPayload(p, secret) == btoa(p) \o <<46>> \o hmacSign(p, secret)

NotDot(c) == c # 46

\* The Cookie header of each kind of request, for the minted token t: no
\* header, the token under another cookie's name, an empty session cookie,
\* the token without its '.', with a payload segment that is no base64, with
\* a signature made under the other secret, with a signature one character
\* longer, a signed text that is no JSON object, and the token itself.
RequestKinds ==
    {"noheader", "other", "empty", "nodot", "badb64", "othersecret", "longsig", "token"}

headerOf(kind, t, payload, secret) ==
    IF kind = "noheader" THEN <<>>
    ELSE IF kind = "other" THEN cookieHeader(t, NULL)
    ELSE IF kind = "empty" THEN cookieHeader(NULL, <<>>)
    ELSE IF kind = "nodot" THEN cookieHeader(NULL, SelectSeq(t, NotDot))
    ELSE IF kind = "badb64" THEN cookieHeader(<<120>>, <<33>> \o t)
    ELSE IF kind = "othersecret"
        THEN cookieHeader(NULL, SubSeq(t, 1, indexOf(t, 46)) \o
                                hmacSign(payload, CHOOSE k \in Secrets : k # secret))
    ELSE IF kind = "longsig" THEN cookieHeader(NULL, t \o <<65>>)
    ELSE cookieHeader(NULL, t)

\* A request of one of the kinds, verified under the minting secret.
VerifyRequest ==
    /\ probe = NoProbe
    /\ minted # NoMint
    /\ minted.token # THROW
    /\ \E kind \in RequestKinds :
         LET header == headerOf(kind, minted.token,
                                stringifySession(minted.identity,
                                                 nowSeconds(minted.at) + SESSION_MAX_AGE),
                                minted.secret)
         IN probe' = [kind |-> kind, pos |-> 0, cookie |-> header, secret |-> minted.secret,
                      at |-> clock,
                      result |-> verifySession(header,
                                     [SESSION_SECRET |-> minted.secret,
                                      ALLOWED_EMAILS |-> <<>>], clock)]
    /\ UNCHANGED <<clock, ticks, minted, sysVars>>

\* A request whose session cookie is a junk text with a valid signature.
VerifyJunk ==
    /\ probe = NoProbe
    /\ minted # NoMint
    /\ \E p \in JunkPayloads :
         LET header == cookieHeader(NULL, signedPayload(p, minted.secret))
         IN probe' = [kind |-> "junk", pos |-> 0, cookie |-> header, secret |-> minted.secret,
                      at |-> clock,
                      result |-> verifySession(header,
                                     [SESSION_SECRET |-> minted.secret,
                                      ALLOWED_EMAILS |-> <<>>], clock)]
    /\ UNCHANGED <<clock, ticks, minted, sysVars>>

NextVerify ==
    \/ \E d \in ClockSteps : CodecTick(d)
    \/ \E identity \in Identities, secret \in Secrets : CodecSign(identity, secret)
    \/ VerifyRequest
    \/ VerifyJunk

SpecVerify == InitCodec /\ [][NextVerify]_vars

(***************************************************************************)
(* Claims about the codec, checked under SpecCodec.                        *)
(***************************************************************************)

\* The expiry the minted token carries, and the second at which the last
\* parseSession call ran.
MintedExp == nowSeconds(minted.at) + SESSION_MAX_AGE
ProbeSecond == nowSeconds(probe.at)

\* C1: for every identity and secret, signSession returns a token, and
\* parseSession of that token under the same secret at any second t with
\* t0 <= t < t0 + 86400 returns exactly the identity.
C1_RoundTrip ==
    /\ minted # NoMint => minted.token # THROW
    /\ (probe.kind = "minted" /\ probe.secret = minted.secret
            /\ ProbeSecond < nowSeconds(minted.at) + 86400)
        => probe.result = minted.identity

\* The round trip does hold for the identities btoa accepts (all code
\* points at most U+00FF).
RoundTripLatin1 ==
    /\ (minted # NoMint /\ \A i \in 1..Len(minted.identity) : minted.identity[i] =< 255)
        => minted.token # THROW
    /\ (probe.kind = "minted" /\ probe.secret = minted.secret
            /\ ProbeSecond < nowSeconds(minted.at) + 86400)
        => probe.result = minted.identity

\* C2: a minted token handed to parseSession under a secret other than the
\* one it was minted with is rejected (null), at any time.
C2_WrongSecretRejected ==
    (probe.kind = "minted" /\ probe.secret # minted.secret) => probe.result = NULL

C2_Witness ==
    /\ probe.kind = "minted"
    /\ probe.secret # minted.secret
    /\ ProbeSecond < MintedExp
    /\ probe.result = NULL

\* C3: a token that differs from a minted token in exactly one character of
\* the payload segment is rejected under the minting secret.
C3_TamperedRejected ==
    probe.kind = "tampered" => probe.result = NULL

\* C4: once the token's expiresAt is earlier than the current second, that
\* is at every second later than 24 hours after minting, parseSession
\* rejects the token, whatever the secret and even with a valid signature.
C4_ExpiredRejected ==
    (probe.kind # "none" /\ MintedExp < ProbeSecond) => probe.result = NULL

C4_Witness ==
    /\ probe.kind = "minted"
    /\ probe.secret = minted.secret
    /\ MintedExp = ProbeSecond - 1
    /\ probe.result = NULL

\* C5: parseSession returns an identity only if the signature verifies
\* under the secret in use and expiresAt is strictly later than the current
\* second; a token whose expiresAt equals the current second is not valid.
C5_ValidOnlyIfStrictlyFuture ==
    probe.result # NULL =>
        /\ hmacVerify(atob(SubSeq(probe.cookie, 1, indexOf(probe.cookie, 46) - 1)),
                      SubSeq(probe.cookie, indexOf(probe.cookie, 46) + 1, Len(probe.cookie)),
                      probe.secret)
        /\ probe.secret = minted.secret
        /\ MintedExp > ProbeSecond

(***************************************************************************)
(* Claims about the deployed worker, checked under Spec.                   *)
(***************************************************************************)

\* The request being answered, its response, and the members of the
\* allowlist in force.
Req == last.req
Resp == last.resp
IsMember(email) == \E i \in 1..Len(allowedEmails(env)) : allowedEmails(env)[i] = email
TrueText == <<116, 114, 117, 101>>

\* What the payload segment of a session token says.
SessionClaims(token) == parseSessionJSON(atob(SubSeq(token, 1, indexOf(token, 46) - 1)))

\* C6: a callback whose code is missing, whose state is missing, whose
\* oauth_state cookie is missing or whose state differs from the cookie is
\* answered 403, without an exchange with the provider and without a
\* session cookie.
C6_StateMismatchRejected ==
    (Req.op = "callback"
        /\ (Req.code = NULL \/ Req.state = NULL \/ Req.sc = NULL \/ Req.state # Req.sc))
    => /\ Resp.status = 403
       /\ ~Resp.exchanged
       /\ Req.reply = NoReply
       /\ Resp.setSession = NULL

C6_Witness ==
    /\ Req.op = "callback"
    /\ Req.code # NULL
    /\ Req.state = randomUUID(1)
    /\ Req.sc = randomUUID(2)
    /\ Resp.status = 403
    /\ ~Resp.exchanged

\* C7: a callback whose state is a nonce handleLogin issued, sent with the
\* matching oauth_state cookie, for which the provider returns a verified
\* email of the allowlist, is answered 302 to /admin/waitlist with a session
\* cookie that verifies to that email and with the oauth_state cookie
\* cleared; GET /admin/waitlist with that session cookie is then served.
C7_HappyPath ==
    (Req.op = "callback" /\ Req.code # NULL
        /\ (\E k \in 1..nonce : Req.state = randomUUID(k)) /\ Req.sc = Req.state
        /\ Req.reply.email # NULL /\ Req.reply.verified = TrueText
        /\ IsMember(Req.reply.email))
    => /\ Resp.status = 302
       /\ Resp.loc = "admin"
       /\ Resp.setState = <<>>
       /\ Resp.setSession # NULL
       /\ verifySession(cookieHeader(NULL, Resp.setSession), env, clock) = Req.reply.email
       /\ listingStatus(cookieHeader(NULL, Resp.setSession), env, clock) = 200

\* The happy path does hold for the emails made of ASCII characters.
HappyPathAscii ==
    (\A i \in 1..Len(Req.reply.email) : Req.reply.email[i] < 128) => C7_HappyPath

\* C8: a callback for which the provider's identity token has no email, or
\* an email_verified that is not the boolean true, is answered 403 and sets
\* no session cookie.
C8_UnverifiedRejected ==
    (Req.op = "callback" /\ (Req.reply.email # NULL \/ Req.reply.verified # NULL)
        /\ (Req.reply.email = NULL \/ Req.reply.verified # TrueText))
    => /\ Resp.status = 403
       /\ Resp.setSession = NULL

\* C9: a callback sets a session cookie only for an identity that is, to
\* the letter, a member of the allowlist in force; for a verified email
\* that is no member it answers 403 and sets no session cookie.
C9_OnlyAllowlistedMinted ==
    Req.op = "callback" =>
        /\ Resp.setSession # NULL =>
              /\ SessionClaims(Resp.setSession).ok
              /\ IsMember(SessionClaims(Resp.setSession).email)
        /\ (Req.reply.email # NULL /\ Req.reply.verified = TrueText
                /\ ~IsMember(Req.reply.email))
           => (Resp.status = 403 /\ Resp.setSession = NULL)

C9_Witness ==
    /\ Req.op = "callback"
    /\ Resp.exchanged
    /\ Req.reply.email = <<97>>
    /\ Req.reply.verified = TrueText
    /\ allowedEmails(env) = <<(<<65>>)>>
    /\ Resp.status = 403
    /\ Resp.setSession = NULL

\* C10: DELETE /admin/waitlist/{id} answers 401 without a valid session (one
\* the worker signed whose expiresAt is later than the current second), 403
\* with a valid session of an identity outside the allowlist and 200
\* otherwise; the table changes only on a 200, for a valid session of an
\* allowlisted identity.
SessionIsValid(ss) ==
    /\ ss # NULL
    /\ ss = kept
    /\ SessionClaims(ss).exp > nowSeconds(clock)

C10_DeleteGate ==
    Req.op = "delete" =>
        /\ Resp.status = IF ~SessionIsValid(Req.ss) THEN 401
                         ELSE IF ~IsMember(SessionClaims(Req.ss).email) THEN 403
                         ELSE 200
        /\ store # last.before =>
              (SessionIsValid(Req.ss) /\ IsMember(SessionClaims(Req.ss).email))
        /\ Resp.status \in {401, 403} => store = last.before

\* The gate does hold when a session counts as valid through the second of
\* its expiresAt.
SessionIsAccepted(ss) ==
    /\ ss # NULL
    /\ ss = kept
    /\ SessionClaims(ss).exp >= nowSeconds(clock)

DeleteGateThroughExpirySecond ==
    Req.op = "delete" =>
        /\ Resp.status = IF ~SessionIsAccepted(Req.ss) THEN 401
                         ELSE IF ~IsMember(SessionClaims(Req.ss).email) THEN 403
                         ELSE 200
        /\ store # last.before =>
              (SessionIsAccepted(Req.ss) /\ IsMember(SessionClaims(Req.ss).email))
        /\ Resp.status \in {401, 403} => store = last.before

\* Reached: a DELETE with a valid session of an allowlisted identity
\* removes a row; one with a session of an identity no longer allowlisted
\* is answered 403.
DeleteRemovesRow ==
    Req.op = "delete" /\ Resp.status = 200 /\ store # last.before
        /\ SessionIsValid(Req.ss)

DeleteForbidden == Req.op = "delete" /\ Resp.status = 403 /\ last.before # {}

\* C11: GET /admin/waitlist redirects a request without a valid session to
\* the login path and shows it no row, answers 403 to a valid session of an
\* identity outside the allowlist in force, and serves the listing only to
\* a valid session of an allowlisted identity.
C11_ListingGate ==
    Req.op = "listing" =>
        /\ Resp.status = IF ~SessionIsValid(Req.ss) THEN 302
                         ELSE IF ~IsMember(SessionClaims(Req.ss).email) THEN 403
                         ELSE 200
        /\ ~SessionIsValid(Req.ss) => (Resp.loc = "login" /\ last.rows = <<>>)

\* What the listing route does: it serves every session verifySession
\* accepts, allowlisted or not, and redirects the others.
ListingServesAnyAcceptedSession ==
    Req.op = "listing" =>
        /\ Resp.status = IF SessionIsAccepted(Req.ss) THEN 200 ELSE 302
        /\ Resp.status = 200 => last.rows = listRows(store)

\* Reached: the listing served, before the token's expiry second, to a
\* session whose identity is outside the allowlist in force.
ListingServedOutsideAllowlist ==
    /\ Req.op = "listing"
    /\ Resp.status = 200
    /\ SessionIsValid(Req.ss)
    /\ ~IsMember(SessionClaims(Req.ss).email)

(***************************************************************************)
(* Claims about the submissions table, checked under SpecStore.            *)
(***************************************************************************)

\* A field of a body that is a string with something other than white space
\* in it, and a body whose three required fields are such.
NonBlank(v) == v # NULL /\ v # NONSTRING /\ \E i \in 1..Len(v) : ~IsJsWhitespace(v[i])
Complete(body) ==
    body.json /\ NonBlank(body.email) /\ NonBlank(body.pain) /\ NonBlank(body.pay)

\* C12: a POST /api/waitlist whose email, pain and pay are non-empty after
\* trimming is answered 200 and adds exactly one record: list() afterwards
\* is the new record followed by list() as it was before.
C12_ValidSubmitAddsHead ==
    (Req.op = "submit" /\ Complete(Req.body)) =>
        /\ Resp.status = 200
        /\ last.before \subseteq store
        /\ Cardinality(store \ last.before) = 1
        /\ listRows(store) = <<CHOOSE r \in store \ last.before : TRUE>>
                                \o listRows(last.before)

C12_Witness ==
    /\ Req.op = "submit"
    /\ Complete(Req.body)
    /\ Resp.status = 200
    /\ Cardinality(last.before) = 2
    /\ Len(listRows(store)) = 3

\* C13: a POST /api/waitlist whose body does not parse, or in which email,
\* pain or pay is missing, no string or empty after trimming, is answered
\* 400 (no exception, no 5xx) and leaves the records and the id counter as
\* they were.
C13_InvalidSubmitRejected ==
    [][(last'.req.op = "submit" /\ ~Complete(last'.req.body)) =>
          /\ last'.resp.status = 400
          /\ store' = store
          /\ seq' = seq
          /\ assigned' = assigned]_vars

C13_Witness ==
    /\ Req.op = "submit"
    /\ Req.body.json
    /\ Req.body.email = NONSTRING
    /\ NonBlank(Req.body.pain) /\ NonBlank(Req.body.pay)
    /\ Resp.status = 400
    /\ store # {}
    /\ store = last.before

\* C14: delete(id) removes the record with that id and no other, reports
\* success, changes nothing when no record has that id, and applied again
\* changes nothing more.
C14_DeleteExactlyOne ==
    Req.op = "delete" =>
        /\ Resp.status = 200
        /\ store = {r \in last.before : r.id # Req.id}
        /\ (~\E r \in last.before : r.id = Req.id) =>
              (store = last.before /\ Cardinality(store) = Cardinality(last.before))
        /\ deleteRows(store, Req.id) = store

C14_Witness ==
    /\ Req.op = "delete"
    /\ \E r \in last.before : r.id = Req.id
    /\ \E r \in store : r.id > Req.id
    /\ \E r \in store : r.id < Req.id
    /\ Cardinality(store) = Cardinality(last.before) - 1

\* Reached: delete(id) of an id no record has, on a table with records.
DeleteAbsentId ==
    /\ Req.op = "delete"
    /\ last.before # {}
    /\ ~\E r \in last.before : r.id = Req.id
    /\ store = last.before

\* C15: list() returns every record of the store exactly once, in strictly
\* descending order of id, and the empty sequence for an empty store.
C15_ListDescending ==
    Req.op = "list" =>
        /\ {last.rows[i] : i \in 1..Len(last.rows)} = store
        /\ Len(last.rows) = Cardinality(store)
        /\ \A i \in 1..(Len(last.rows) - 1) : last.rows[i].id > last.rows[i + 1].id
        /\ store = {} => last.rows = <<>>

C15_Witness ==
    /\ Req.op = "list"
    /\ Len(last.rows) = 2
    /\ last.rows[1].id = 3
    /\ last.rows[2].id = 1

\* C16: the records' ids are unique, and the id given to a submitted record
\* is greater than every id given before, also after the record with the
\* highest id, or every record, has been deleted.
C16_IdsNeverReused ==
    [][/\ \A r, q \in store' : r.id = q.id => r = q
       /\ (last'.req.op = "submit" /\ last'.resp.status = 200) =>
             \E r \in store' \ store : \A i \in assigned : r.id > i]_vars

C16_Witness ==
    /\ Req.op = "submit"
    /\ Resp.status = 200
    /\ last.before = {}
    /\ Cardinality(assigned) = 3
    /\ \E r \in store : r.id = 3

(***************************************************************************)
(* Claims about the table across versions, checked under SpecMigrate.      *)
(***************************************************************************)

\* The row q is the row r of an earlier version after the migration: id,
\* pain, pay and created_at as they were, the empty string in each text
\* column added and 0 in max_agents if added.
MigratedFrom(q, r) ==
    /\ q.id = r.id /\ q.pain = r.pain /\ q.pay = r.pay /\ q.created_at = r.created_at
    /\ \A c \in {"email", "target_platforms", "dev_os"} \ DOMAIN r : q[c] = <<>>
    /\ "max_agents" \notin DOMAIN r => q.max_agents = SqlInt(0)
    /\ \A c \in DOMAIN r : q[c] = r[c]

\* C17: constructing the WaitlistDO on a table of any earlier version does
\* not fail and loses no row: list() then shows every earlier row with id,
\* pain, pay and created_at unchanged, '' in each added text column and 0 in
\* an added max_agents; afterwards list answers with every row, a complete
\* POST adds its row and delete removes its row.
C17_MigrationKeepsRows ==
    /\ Req.op = "open" =>
          /\ Resp.status = 200
          /\ ~selectFails(table.columns)
          /\ Cardinality(store) = Cardinality(last.before)
          /\ Len(listRows(selectRows(store))) = Cardinality(last.before)
          /\ \A r \in last.before : \E q \in store : MigratedFrom(q, r)
          /\ \A r \in last.before : \E q \in selectRows(store) :
                \A c \in LatestColumns \cap DOMAIN r : q[c] = r[c]
    /\ Req.op = "list" =>
          /\ Resp.status = 200
          /\ {last.rows[i] : i \in 1..Len(last.rows)} = selectRows(store)
          /\ Len(last.rows) = Cardinality(store)
    /\ (Req.op = "submit" /\ Complete(Req.body)) =>
          /\ Resp.status = 200
          /\ last.before \subseteq store
          /\ Cardinality(store \ last.before) = 1
    /\ Req.op = "delete" => store = {r \in last.before : r.id # Req.id}

C17_Witness ==
    /\ Req.op = "open"
    /\ last.before = {OldRow(SchemaV1, 1), OldRow(SchemaV1, 2)}
    /\ \A q \in store : q.max_agents = SqlInt(0) /\ q.email = <<>> /\ q.pain = <<120>>

\* Reached: a POST accepted on a table migrated from the version with the
\* platform column, with the two earlier rows still listed.
SubmitOnMigratedTable ==
    /\ Req.op = "submit"
    /\ Resp.status = 200
    /\ "platform" \in table.columns
    /\ Cardinality(store) = 3

(***************************************************************************)
(* Further claims about the deployed worker, checked under Spec.           *)
(***************************************************************************)

\* C18: GET /auth/logout answers 302 to / with the session cookie cleared
\* (Max-Age=0) and changes nothing the worker keeps; the token the client
\* held is verified afterwards exactly as before, so until its expiresAt a
\* request presenting it is still authenticated and served the listing.
C18_LogoutKeepsTokenValid ==
    [][last'.req.op = "logout" =>
          /\ last'.resp.status = 302
          /\ last'.resp.loc = "root"
          /\ last'.resp.setSession = <<>>
          /\ UNCHANGED <<clock, env, nonce, kept, store, seq, assigned, table>>
          /\ (kept # NULL /\ SessionClaims(kept).exp > nowSeconds(clock)) =>
                /\ verifySession(cookieHeader(NULL, kept'), env', clock')
                      = SessionClaims(kept).email
                /\ listingStatus(cookieHeader(NULL, kept'), env', clock') = 200]_vars

C18_Witness ==
    /\ Req.op = "logout"
    /\ Req.ss # NULL
    /\ Req.ss = kept
    /\ SessionClaims(kept).exp > nowSeconds(clock)
    /\ verifySession(cookieHeader(NULL, kept), env, clock) = <<97>>
    /\ Resp.setSession = <<>>

\* C19: every callback ends in a response with status 302, 403 or 502 and
\* never in an exception; a failure status of the token endpoint or a reply
\* without id_token gives 502, and a reply that is no JSON, or whose
\* id_token has no decodable JSON payload, gives an error response and no
\* session cookie.
C19_CallbackAlwaysResponds ==
    Req.op = "callback" =>
        /\ Resp.status \in {302, 403, 502}
        /\ (Resp.exchanged /\ (~Req.reply.ok \/ (Req.reply.json /\ Req.reply.id_token = NULL)))
              => Resp.status = 502
        /\ (Resp.exchanged /\ Req.reply.email = NULL /\ Req.reply.verified = NULL)
              => (Resp.status \in {403, 502} /\ Resp.setSession = NULL)

\* What does hold: the two 502 cases, and no session cookie for any
\* malformed reply; the malformed replies end in an exception (500).
CallbackMalformedReplyThrows ==
    Req.op = "callback" =>
        /\ (Resp.exchanged /\ (~Req.reply.ok \/ (Req.reply.json /\ Req.reply.id_token = NULL)))
              => Resp.status = 502
        /\ (Resp.exchanged /\ Req.reply.ok /\ Req.reply.email = NULL /\ Req.reply.verified = NULL
                /\ (~Req.reply.json \/ Req.reply.id_token # NULL))
              => (Resp.status = 500 /\ Resp.setSession = NULL)

(***************************************************************************)
(* Claims about verifySession, checked under SpecVerify.                   *)
(***************************************************************************)

VerifyJunkRejected ==
    /\ probe.kind = "junk"
    /\ hmacVerify(<<110, 117, 108, 108>>,
                  SubSeq(getCookie(probe.cookie, COOKIE_NAME), 10,
                         Len(getCookie(probe.cookie, COOKIE_NAME))), probe.secret)
    /\ probe.result = NULL
VerifyExpiredRejected == probe.kind = "token" /\ MintedExp < ProbeSecond /\ probe.result = NULL
VerifyTokenAccepted == probe.kind = "token" /\ probe.result = <<97>>

(***************************************************************************)
(* C21.  maxAgents of a stored record.                                     *)
(***************************************************************************)

\* The row the last accepted POST /api/waitlist inserted.
NewRow == CHOOSE r \in store : r.id = seq

Accepted == Req.op = "submit" /\ Resp.status = 200

\* C21: every record of the store has max_agents equal to a non-negative
\* integer, whatever a body carried as max_agents, and the record of a body
\* without max_agents has 0.
C21_MaxAgentsNonNegativeInteger ==
    /\ \A r \in store : r.max_agents.s = <<>> /\ r.max_agents.n >= 0
    /\ (Accepted /\ Req.body.max_agents.k = "absent") => NewRow.max_agents = SqlInt(0)

\* What the code keeps: the number sent, whatever its sign or fraction, and
\* 0 for a max_agents that is absent or no number.
MaxAgentsStoredAsSent ==
    Accepted =>
        LET m == Req.body.max_agents IN
        /\ m.k # "number" => NewRow.max_agents = SqlInt(0)
        /\ m.k = "number" => NewRow.max_agents.n = m.n
        /\ m = JsonNum(2, <<48>>) => NewRow.max_agents = SqlInt(2)
        /\ m = JsonNum(1, <<53>>) => NewRow.max_agents.s = <<53>>

\* A negative count has been accepted and stored.
MaxAgentsNegativeStored ==
    Accepted /\ Req.body.max_agents = JsonNum(0 - 1, <<>>) /\ NewRow.max_agents.n < 0

(***************************************************************************)
(* C22.  The required fields of a listed record.                           *)
(***************************************************************************)

Listed == {last.rows[i] : i \in 1..Len(last.rows)}

ListAnswered == Req.op = "list" /\ Resp.status = 200

\* C22: every record list() returns has non-empty email, pain and pay,
\* whether POST /api/waitlist created it or it existed before a migration.
C22_ListedFieldsNonEmpty ==
    ListAnswered => \A r \in Listed : r.email # <<>> /\ r.pain # <<>> /\ r.pay # <<>>

\* C22 as amended: every record list() returns has non-empty pain and pay;
\* its email is non-empty unless the row existed before the migration added
\* the email column, and such a row has the defaults of the added columns
\* in target_platforms and dev_os, which no submit writes.  The record an
\* accepted POST /api/waitlist creates has non-empty email, pain and pay.
C22_ListedFieldsNonEmptyUnlessMigrated ==
    /\ ListAnswered =>
         \A r \in Listed :
            /\ r.pain # <<>> /\ r.pay # <<>>
            /\ r.email = <<>> =>
                 /\ r.target_platforms = columnDefault("target_platforms")
                 /\ r.dev_os = columnDefault("dev_os")
                 /\ r.id \in {1, 2}
    /\ Accepted =>
         /\ NewRow.email # <<>> /\ NewRow.pain # <<>> /\ NewRow.pay # <<>>
         /\ NewRow.target_platforms # columnDefault("target_platforms")

\* A listing shows a row from before the migration with an empty email
\* next to a row a POST created.
C22_Witness ==
    /\ ListAnswered
    /\ \E r \in Listed, q \in Listed :
         /\ r.email = <<>> /\ r.id = 1
         /\ q.id > 2 /\ q.email = <<97>> /\ q.pain = <<120>> /\ q.pay = <<121>>

(***************************************************************************)
(* One browser logging in: GET /auth/google puts the state in its          *)
(* oauth_state cookie, the provider sends it back to /auth/callback with a *)
(* state, and the callback requests it has sent are answered in any order. *)
(***************************************************************************)

\* How many callback requests are in flight at once.
MaxFlight == 2

\* The clock advances by half the life of the oauth_state cookie.
StateSteps == {(STATE_MAX_AGE * 1000) \div 2}

\* The oauth_state cookie the browser sends at the time nowMs: none once
\* Max-Age has passed.
browserCookie(b, nowMs) ==
    IF b.state # NULL /\ nowMs < b.expires THEN b.state ELSE NULL

\* The browser's cookie after a response: Set-Cookie oauth_state=v with
\* Max-Age=600 stores v, with Max-Age=0 removes the cookie.
storeCookie(b, resp, nowMs) ==
    IF resp.setState = NULL THEN b
    ELSE IF resp.setState = <<>> THEN [b EXCEPT !.state = NULL, !.expires = 0]
    ELSE [b EXCEPT !.state = resp.setState, !.expires = nowMs + STATE_MAX_AGE * 1000]

InitBrowser ==
    /\ clock = 0
    /\ ticks = 0
    /\ minted = [identity |-> <<>>, secret |-> <<>>, at |-> 0 - 1, token |-> NULL]
    /\ probe = [kind |-> "none", pos |-> 0, cookie |-> <<>>, secret |-> <<>>,
                at |-> 0, result |-> NULL]
    /\ env = [SESSION_SECRET |-> <<107>>, ALLOWED_EMAILS |-> <<97, 44, 32, 322>>]
    /\ nonce = 0
    /\ kept = NULL
    /\ store = {}
    /\ seq = 0
    /\ assigned = {}
    /\ table = [open |-> TRUE, columns |-> LatestColumns]
    /\ browser = NoBrowser
    /\ calls = NoCalls
    /\ last = Idle

\* GET /auth/google from the browser, which stores the cookie of the
\* response.
BrowserLogin ==
    /\ last = Idle
    /\ nonce < MaxLogins
    /\ nonce' = nonce + 1
    /\ LET resp == handleLogin(nonce + 1) IN
       /\ last' = Answer(Request("login", NULL, NULL, NULL, NULL, 0, NoReply, NoBody),
                         resp, <<>>)
       /\ browser' = storeCookie(browser, resp, clock)
    /\ UNCHANGED <<clock, ticks, minted, probe, calls, env, kept, store, seq, assigned, table>>

\* The provider redirects the browser to /auth/callback?code=c&state=..
\* with a state it was given at one of the logins; the browser sends the
\* request with the cookie it has at that time.  logins tells how many
\* logins had been made, usedBefore and doneBefore whether a callback with
\* this state had passed the state check and had ended in the redirect.
BrowserSend ==
    /\ last = Idle
    /\ nonce > 0
    /\ Cardinality(browser.flight) < MaxFlight
    /\ \E k \in 1..nonce :
         LET request == [code |-> <<99>>, state |-> randomUUID(k),
                         sc |-> browserCookie(browser, clock), logins |-> nonce,
                         usedBefore |-> randomUUID(k) \in browser.used,
                         doneBefore |-> randomUUID(k) \in browser.done]
         IN /\ request \notin browser.flight
            /\ browser' = [browser EXCEPT !.flight = @ \cup {request}]
    /\ UNCHANGED <<clock, ticks, minted, probe, calls, env, nonce, kept, store, seq, assigned,
                   table, last>>

\* The replies of the token endpoint in a login of the browser: a failure
\* status, and identity tokens for a verified email on the allowlist and
\* for one that is not on it.
BrowserReplies ==
    {Reply(FALSE, TRUE, NULL, NULL, NULL),
     Reply(TRUE, TRUE, idToken(claimsText(<<97>>, FALSE, TrueText)), <<97>>, TrueText),
     Reply(TRUE, TRUE, idToken(claimsText(<<98>>, FALSE, TrueText)), <<98>>, TrueText)}

\* GET /auth/callback: one of the requests in flight is answered, and the
\* browser stores the cookies of the response.
BrowserCallback ==
    /\ last = Idle
    /\ \E f \in browser.flight :
         LET header == cookieHeader(f.sc, NULL) IN
         \E reply \in (IF stateRejected(f.code, f.state, getCookie(header, STATE_COOKIE))
                       THEN {NoReply} ELSE BrowserReplies) :
           \E resp \in {handleCallback(f.code, f.state, header, env, clock, reply)} :
           /\ last' = Answer(Request("callback", f.code, f.state, f.sc, NULL, 0, reply,
                                     NoBody), resp, <<>>)
           /\ kept' = IF resp.setSession = NULL THEN kept ELSE resp.setSession
           /\ browser' = [storeCookie(browser, resp, clock) EXCEPT
                            !.flight = @ \ {f},
                            !.used = IF resp.exchanged THEN @ \cup {f.state} ELSE @,
                            !.done = IF resp.status = 302 THEN @ \cup {f.state} ELSE @]
    /\ UNCHANGED <<clock, ticks, minted, probe, calls, env, nonce, store, seq, assigned, table>>

BrowserTick == \E d \in StateSteps : Tick(d)

NextBrowser ==
    \/ Respond
    \/ BrowserTick
    \/ BrowserLogin
    \/ BrowserSend
    \/ BrowserCallback

SpecBrowser == InitBrowser /\ [][NextBrowser]_vars

(***************************************************************************)
(* C23, C24.  The state of a login.                                        *)
(***************************************************************************)

\* The callback request answered in a step, if any.
Served == browser.flight \ browser'.flight

\* A callback passes the state check exactly when the handler goes on to
\* the exchange with the provider.
PassedStateCheck == Resp.exchanged

\* C23: once a callback carrying a state value has passed the state check,
\* whether it ended in the redirect or in a later failure, no later callback
\* of the browser carrying the same state value passes the state check.
C23_StateSingleUse ==
    [][\A f \in Served : f.usedBefore => ~PassedStateCheck']_vars

\* C23 as amended: once a callback carrying a state value has ended in the
\* redirect, which clears the cookie, no callback the browser sends
\* afterwards with the same state value passes the state check.
C23_StateUsedUpBySuccess ==
    [][\A f \in Served : f.doneBefore => ~PassedStateCheck']_vars

\* A callback sent after the redirect with the state value of the redirect
\* has been answered.
C23_Witness ==
    /\ Req.op = "callback" /\ Req.state \in browser.done /\ Resp.status = 403
    /\ ~PassedStateCheck

\* A callback failed after the state check and the state cookie is still
\* in the browser.
StateKeptAfterFailure ==
    /\ Req.op = "callback" /\ PassedStateCheck /\ Resp.status # 302
    /\ browser.state = Req.state

\* C24: when the browser has made two logins before completing either,
\* each overwriting the oauth_state cookie, a callback it then sends with
\* the state of the earlier login is answered 403 without an exchange; only
\* one with the state issued last can pass, and whatever the order in which
\* the callbacks in flight are answered, one passes the state check only
\* with the state that was in the cookie sent with it.
C24_OnlyLatestStatePasses ==
    [][\A f \in Served :
         /\ PassedStateCheck' => (f.state = f.sc /\ f.state = randomUUID(f.logins))
         /\ (f.logins >= 2 /\ f.state # randomUUID(f.logins)) =>
              (last'.resp.status = 403 /\ ~PassedStateCheck'
               /\ last'.resp.setSession = NULL)]_vars

\* After two logins a callback carrying the earlier state and the cookie of
\* the later login has been refused, and a callback with the later state
\* has passed the state check.
C24_Witness ==
    /\ nonce >= 2
    /\ Req.op = "callback" /\ Req.state = randomUUID(1) /\ Req.sc = randomUUID(2)
    /\ Resp.status = 403
    /\ randomUUID(2) \in browser.used

\* Both callbacks of two logins were in flight at once.
TwoCallbacksInFlight ==
    \E f \in browser.flight, g \in browser.flight :
        f.state = randomUUID(1) /\ g.state = randomUUID(2) /\ f.logins = 2 /\ g.logins = 2

(***************************************************************************)
(* Concurrent requests against the one WaitlistDO: a handler of the worker *)
(* validates, calls a method of the object and awaits it; the object runs  *)
(* the waiting calls one at a time in any order, each method being one     *)
(* sql.exec, and the handler that awaited the call answers its request.    *)
(***************************************************************************)

\* How many calls are made in a run.
MaxCalls == 3

\* The bodies posted concurrently: one without an email and two complete
\* ones.
ConcurrentBodies ==
    {[NoBody EXCEPT !.json = TRUE, !.pain = <<120>>, !.pay = <<121>>],
     [NoBody EXCEPT !.json = TRUE, !.email = <<97>>, !.pain = <<120>>, !.pay = <<121>>],
     [NoBody EXCEPT !.json = TRUE, !.email = <<98>>, !.pain = <<120>>, !.pay = <<121>>,
                    !.max_agents = JsonNum(2, <<>>)]}

\* A call of a method: no numbers the calls, counter is the AUTOINCREMENT
\* counter as it stood when the call was made.
Call(no, op, body, id, counter) ==
    [no |-> no, op |-> op, body |-> body, id |-> id, counter |-> counter]

\* The counter as the caller last saw it.
counterAtCall(call, counter) == call.counter

\* The counter the INSERT continues from: sqlite_sequence as it stands when
\* the statement runs inside the object.
counterAtInsert(call, counter) == counter

InitConcurrent ==
    /\ clock = 0
    /\ ticks = 0
    /\ minted = [identity |-> <<>>, secret |-> <<>>, at |-> 0 - 1, token |-> NULL]
    /\ probe = [kind |-> "none", pos |-> 0, cookie |-> <<>>, secret |-> <<>>,
                at |-> 0, result |-> NULL]
    /\ env = [SESSION_SECRET |-> <<107>>, ALLOWED_EMAILS |-> <<>>]
    /\ nonce = 0
    /\ kept = NULL
    /\ store = {}
    /\ seq = 0
    /\ assigned = {}
    /\ table = [open |-> TRUE, columns |-> LatestColumns]
    /\ browser = NoBrowser
    /\ calls = NoCalls
    /\ last = Idle

\* POST /api/waitlist up to its await of stub.submit: a body that fails the
\* validation is answered 400 at once, otherwise submit is called.
ConcurrentPost ==
    /\ last = Idle
    /\ calls.made < MaxCalls
    /\ \E body \in ConcurrentBodies :
         IF submitStatus(body) # 200
         THEN /\ last' = Answer(Request("submit", NULL, NULL, NULL, NULL, 0, NoReply, body),
                                Response(400, "", FALSE), <<>>)
              /\ calls' = [calls EXCEPT !.made = @ + 1]
         ELSE /\ calls' = [calls EXCEPT
                             !.made = @ + 1,
                             !.waiting = @ \cup {Call(calls.made + 1, "submit", body, 0, seq)}]
              /\ UNCHANGED last
    /\ UNCHANGED <<clock, ticks, minted, probe, browser, env, nonce, kept, store, seq,
                   assigned, table>>

\* stub.delete(id) and stub.list() are called.
ConcurrentCall ==
    /\ last = Idle
    /\ calls.made < MaxCalls
    /\ \E op \in {"delete", "list"}, id \in 1..2 :
         /\ op = "list" => id = 1
         /\ calls' = [calls EXCEPT
                        !.made = @ + 1,
                        !.waiting = @ \cup {Call(calls.made + 1, op, NoBody,
                                                 IF op = "list" THEN 0 ELSE id, seq)}]
    /\ UNCHANGED <<clock, ticks, minted, probe, browser, env, nonce, kept, store, seq,
                   assigned, table, last>>

\* The object runs one of the waiting calls to its end, submit, delete or
\* list, and the handler that awaited it answers its request.
ConcurrentRun ==
    /\ last = Idle
    /\ \E c \in calls.waiting :
         LET row == submitRow(lastAssignedId(counterAtInsert(c, seq), store),
                              trim(c.body.email), maxAgentsOf(c.body.max_agents),
                              trim(c.body.pain), trim(c.body.pay),
                              orEmpty(c.body.target_platforms), orEmpty(c.body.dev_os),
                              clock)
             result == [call |-> c, at |-> clock,
                        rows |-> IF c.op = "list" THEN listRows(selectRows(store))
                                 ELSE <<>>]
         IN /\ store' = IF c.op = "submit" THEN store \cup {insertRow(table.columns, row)}
                        ELSE IF c.op = "delete" THEN deleteRows(store, c.id)
                        ELSE store
            /\ seq' = IF c.op = "submit" THEN row.id ELSE seq
            /\ assigned' = IF c.op = "submit" THEN assigned \cup {row.id} ELSE assigned
            /\ calls' = [calls EXCEPT !.waiting = @ \ {c}, !.log = Append(@, result)]
            /\ last' = Answer(Request(c.op, NULL, NULL, NULL, NULL, c.id, NoReply, c.body),
                              Response(200, "", FALSE), result.rows)
    /\ UNCHANGED <<clock, ticks, minted, probe, browser, env, nonce, kept, table>>

NextConcurrent ==
    \/ Respond
    \/ ConcurrentPost
    \/ ConcurrentCall
    \/ ConcurrentRun

SpecConcurrent == InitConcurrent /\ [][NextConcurrent]_vars

(***************************************************************************)
(* C25.  Atomicity of submit, delete and list.                             *)
(***************************************************************************)

\* The table after the calls log[i..] made one after the other on the
\* table t = [rows, counter, ok]; ok tells whether every list among them
\* returned the rows of the table as it then stood.
RECURSIVE Serial(_, _, _)
Serial(log, i, t) ==
    IF i > Len(log) THEN t
    ELSE LET c == log[i].call
             id == t.counter + 1
             row == [id |-> id, email |-> trim(c.body.email),
                     max_agents |-> maxAgentsOf(c.body.max_agents),
                     pain |-> trim(c.body.pain), pay |-> trim(c.body.pay),
                     target_platforms |-> <<91, 93>>, dev_os |-> <<91, 93>>,
                     created_at |-> log[i].at \div 1000]
             listed == {log[i].rows[k] : k \in 1..Len(log[i].rows)}
         IN Serial(log, i + 1,
                   IF c.op = "submit"
                       THEN [t EXCEPT !.rows = @ \cup {row}, !.counter = id]
                   ELSE IF c.op = "delete"
                       THEN [t EXCEPT !.rows = {r \in @ : r.id # c.id}]
                   ELSE [t EXCEPT !.ok = @ /\ listed = t.rows
                                         /\ Len(log[i].rows) = Cardinality(t.rows)])

Submitted == {i \in 1..Len(calls.log) : calls.log[i].call.op = "submit"}
Deleted == {calls.log[i].call.id : i \in {k \in 1..Len(calls.log) : calls.log[k].call.op = "delete"}}

\* C25: whatever the interleaving of concurrent requests, the table is what
\* the calls made one after the other in some order leave (the order in
\* which the object ran them), every list returned the whole table as it
\* stood between two calls, and N submissions have made N records with N
\* different ids, all of them in the table while nothing is deleted.
C25_CallsAtomic ==
    LET t == Serial(calls.log, 1, [rows |-> {}, counter |-> 0, ok |-> TRUE]) IN
    /\ t.ok /\ t.rows = store /\ t.counter = seq
    /\ Cardinality(assigned) = Cardinality(Submitted)
    /\ \A r \in store, q \in store : r.id = q.id => r = q
    /\ {r.id : r \in store} \subseteq assigned
    /\ Deleted = {} => Cardinality(store) = Cardinality(Submitted)

\* Two submissions were waiting at once and a list called after them ran
\* between them: the second got the id 2 although the counter was 0 when
\* it was called.
C25_Witness ==
    /\ Len(calls.log) = 3
    /\ calls.log[1].call.op = "submit" /\ calls.log[2].call.op = "list"
    /\ calls.log[3].call.op = "submit"
    /\ calls.log[3].call.no < calls.log[2].call.no
    /\ calls.log[1].call.counter = 0 /\ calls.log[3].call.counter = 0
    /\ Len(calls.log[2].rows) = 1
    /\ {r.id : r \in store} = {1, 2}

\* A delete ran between two submissions that were waiting with it.
DeleteBetweenSubmits ==
    /\ Len(calls.log) = 3
    /\ calls.log[1].call.op = "submit" /\ calls.log[2].call = Call(3, "delete", NoBody, 1, 0)
    /\ calls.log[3].call.op = "submit"
    /\ {r.id : r \in store} = {2}

====
